---- MODULE Spec2Model ----
(***************************************************************************)
(* Model of AIConexus: the gateway with its presence registry              *)
(* (src/src/gateway/registry.py, src/src/gateway/server.py), the WebRTC    *)
(* layer (src/src/aiconexus/webrtc/peer.py, datachannel.py, retry.py), the *)
(* gateway client (src/src/aiconexus/client/socket.py), the message        *)
(* signer (src/src/aiconexus/protocol/security.py) and the protocol data   *)
(* (src/src/aiconexus/protocol/models.py, serialization.py).               *)
(*                                                                         *)
(* The specifications share the variables; each leaves the variables of    *)
(* the others unchanged:                                                   *)
(*   SpecRegistry     the AgentRegistry API driven directly, as the unit   *)
(*                    tests and the integration tests drive it;            *)
(*   Spec             the gateway serving WebSocket connections;           *)
(*   SpecLock         tasks of one event loop calling the registry, with   *)
(*                    the asyncio.Lock and the suspensions made explicit;  *)
(*   SpecPeer         one PeerConnection under every order of calls;       *)
(*   SpecNegotiation  two PeerConnection instances exchanging offers and   *)
(*                    answers;                                             *)
(*   SpecChannels     one DataChannelManager and the channels it made;     *)
(*   SpecIndex        the manager under create_channel, close_channel and  *)
(*                    close_all alone;                                     *)
(*   SpecDataChannel  DataChannel objects under open, close and send;      *)
(*   SpecRetry        execute_with_retry calls on one                      *)
(*                    ConnectionRetryManager;                              *)
(*   SpecBackoff      one RetryState recording failures and computing      *)
(*                    delays, under any configuration;                     *)
(*   SpecClient       one GatewayClient: connect() and disconnect() calls, *)
(*                    its receive tasks and its transports, interleaved at *)
(*                    every await that suspends;                           *)
(*   SpecDispatch     one GatewayClient connection with any handlers,      *)
(*                    frames arriving and messages sent;                   *)
(*   SpecSign         sign_message and verify_message;                     *)
(*   SpecMessage      the Message model given any type and payload;        *)
(*   SpecRegister     register() on a connected client and a receiver      *)
(*                    verifying the frame it wrote.                        *)
(*                                                                         *)
(* Every registry method takes the asyncio.Lock and never awaits while it  *)
(* holds it, so the lock is free whenever a method asks for it and each    *)
(* method is one atomic step in SpecRegistry and Spec; SpecLock checks     *)
(* that.  _handle_connection suspends at receive_text and at its writes;   *)
(* no other flow changes state it reads, so the stretch from one           *)
(* receive_text to the next suspension that matters is one step.           *)
(*                                                                         *)
(* In Spec no connection ever leaves the wait for REGISTER alive: line 171 *)
(* of server.py calls .get on the payload of the validated Message, which  *)
(* is a pydantic model and has no such attribute.  The routing loop        *)
(* (server.py:186-189, _route_message, _send_to_agent) is therefore        *)
(* unreachable and has no action here.                                     *)
(*                                                                         *)
(* PeerConnection runs on its mock backend: aiortc is not among the        *)
(* dependencies, so AIORTC_AVAILABLE is False.  The methods of             *)
(* PeerConnection and DataChannelManager never await anything that         *)
(* suspends, so each call is one step.                                     *)
(***************************************************************************)
EXTENDS Integers, Sequences, FiniteSets, TLC

\* ---------------------------------------------------------------- bounds
MaxDids == 2        \* number of distinct agent identifiers
MaxConns == 2       \* number of WebSocket connections ever accepted
MaxTime == 4        \* the clock runs from 0 to MaxTime
Timeout == 1        \* AgentRegistry.timeout_seconds, in clock ticks
MaxFrames == 2      \* frames written by all clients together
MaxTasks == 2       \* concurrent tasks calling the registry
MaxLabels == 2      \* distinct data channel labels
MaxCand == 1        \* ICE candidates one PeerConnection is given
MaxObjects == 2     \* DataChannel objects one manager ever constructs
MaxRetries == 3     \* RetryConfig.max_retries runs from 0 to MaxRetries
MaxCalls == 2       \* execute_with_retry calls made on one manager
MaxAttempts == 3    \* failures recorded on one RetryState between resets
MaxConnects == 2    \* connect() calls made on one GatewayClient
MaxDisconnects == 1 \* disconnect() calls made on one GatewayClient
MaxSockets == 2     \* transports one GatewayClient ever opens
MaxReconnect == 2   \* max_reconnect_attempts runs from 0 to MaxReconnect
MaxHandlers == 2    \* handlers registered with on_message, and with on_error
MaxKeys == 2        \* Ed25519 key pairs
MaxQueue == 2       \* messages one DataChannel is sent

DIDs == 1..MaxDids
WS == 1..MaxConns
Times == 0..MaxTime

\* "did:key:gateway", the sender of the frames the gateway originates
GatewayDid == 0

\* Python's None
None == [none |-> TRUE]

VARIABLES
    agents,         \* AgentRegistry._agents : did -> RegistryEntry
    now,            \* datetime.utcnow()
    ret,            \* what the last registry call did and returned
    counted,        \* did -> times cleanup_expired counted its current entry
    removedBy,      \* did -> the call that removed its last entry
    agents_by_ws,   \* GatewayServer._agents_by_ws : websocket -> did
    pc,             \* websocket -> position of its _handle_connection
    hist,           \* websocket -> frames its client has written
    nread,          \* websocket -> how many of them receive_text returned
    peerGone,       \* websocket -> the client closed its side
    sent,           \* websocket -> what the gateway wrote to it
    nframes,        \* frames written by all clients so far
    lock_locked,    \* AgentRegistry._lock._locked
    lock_waiters,   \* AgentRegistry._lock._waiters, oldest first
    running,        \* the task the event loop is running, 0 when it is idle
    tpc,            \* task -> position in its registry call
    top,            \* task -> the registry call it makes
    woken,          \* the waiters whose future has a result
    lockLog,        \* the calls in the order their bodies ran
    peer,           \* PeerConnection instance -> its fields
    pret,           \* the last PeerConnection call and how it ended
    heap,           \* DataChannel objects ever constructed, by identity
    channels,       \* DataChannelManager._channels : label -> object
    channels_by_id, \* DataChannelManager._channels_by_id : id -> object
    dret,           \* the last DataChannelManager call and how it ended
    retry_state,    \* ConnectionRetryManager.retry_state, its config included
    rcall,          \* execute_with_retry call -> its position and what it did
    nerrors,        \* exceptions the operations have thrown so far
    delay_log,      \* delays calculate_delay returned since the last reset
    client,         \* the fields of the GatewayClient
    socks,          \* transport -> what has happened to it
    rtask,          \* receive task -> its position in _receive_messages
    conn,           \* connect() call -> its position and its locals
    disc,           \* disconnect() call -> its position and its locals
    cret,           \* the last step of the client and what it did
    signed,         \* the last sign_message call: message, key and signature
    vret,           \* the last verify_message call and what it returned
    parsed,         \* the last Message(**dict) call and what it built
    reg             \* the client's key and what its last register() signed and wrote

regVars == <<agents, now, ret, counted, removedBy>>
gwVars == <<agents_by_ws, pc, hist, nread, peerGone, sent, nframes>>
lockVars == <<lock_locked, lock_waiters, running, tpc, top, woken, lockLog>>
peerVars == <<peer, pret>>
dcmVars == <<heap, channels, channels_by_id, dret>>
\* everything that is neither the registry's nor the gateway's
webrtcVars == <<peer, pret, heap, channels, channels_by_id, dret>>
retryVars == <<retry_state, rcall, nerrors, delay_log>>
clientVars == <<client, socks, rtask, conn, disc, cret>>
signVars == <<signed, vret>>
\* the resilience layer and the client side
protoVars == <<parsed, reg>>
extVars == <<retryVars, clientVars, signVars, protoVars>>
\* the relay side and the negotiation
coreVars == <<regVars, gwVars, lockVars, webrtcVars>>
\* everything but the retry manager
notRetryVars == <<coreVars, clientVars, signVars, protoVars>>
\* everything but the gateway client
notClientVars == <<coreVars, retryVars, signVars, protoVars>>
\* everything but the message signer
notSignVars == <<coreVars, retryVars, clientVars, protoVars>>
vars == <<agents, now, ret, counted, removedBy,
          agents_by_ws, pc, hist, nread, peerGone, sent, nframes,
          lock_locked, lock_waiters, running, tpc, top, woken, lockLog,
          peer, pret, heap, channels, channels_by_id, dret,
          extVars>>

\* ------------------------------------------------------------- registry
\* RegistryEntry (ip_address is never read by the gateway and is left out)
RegistryEntry(did, key, connected, activity) ==
    [agent_did |-> did, public_key |-> key,
     connected_at |-> connected, last_activity |-> activity]

\* the key material of agent d
KeyOf(d) == d + 100

\* the expiry test with the boundary on the wrong side
Expired_AtTimeout(entry, t) == t - entry.last_activity >= Timeout

\* age = (now - entry.last_activity).total_seconds(); age > timeout_seconds
Expired(entry, t) == t - entry.last_activity > Timeout

Restrict(ag, keep) == [d \in keep |-> ag[d]]

\* AgentRegistry.register: self._agents[agent_did] = entry
register(ag, did, entry) ==
    [d \in (DOMAIN ag) \cup {did} |-> IF d = did THEN entry ELSE ag[d]]

\* AgentRegistry.unregister: delete if present, report whether it was
unregister(ag, did) ==
    IF did \in DOMAIN ag
    THEN [agents |-> Restrict(ag, (DOMAIN ag) \ {did}), result |-> TRUE]
    ELSE [agents |-> ag, result |-> FALSE]

\* AgentRegistry.get: the entry, or None when missing or expired;
\* an expired entry is deleted on the way
get(ag, did, t) ==
    IF did \notin DOMAIN ag
    THEN [agents |-> ag, result |-> None]
    ELSE IF Expired(ag[did], t)
         THEN [agents |-> Restrict(ag, (DOMAIN ag) \ {did}), result |-> None]
         ELSE [agents |-> ag, result |-> ag[did]]

\* AgentRegistry.list_agents: the entries that are not expired;
\* the expired ones are deleted
list_agents(ag, t) ==
    LET expired_dids == {d \in DOMAIN ag : Expired(ag[d], t)}
        active == (DOMAIN ag) \ expired_dids
    IN  [agents |-> Restrict(ag, active),
         result |-> {ag[d] : d \in active},
         expired |-> expired_dids]

\* AgentRegistry.touch: last_activity = now, when the agent is present
touch(ag, did, t) ==
    IF did \in DOMAIN ag
    THEN [ag EXCEPT ![did].last_activity = t]
    ELSE ag

\* AgentRegistry.cleanup_expired: delete the expired entries, return
\* how many there were
cleanup_expired(ag, t) ==
    LET expired_dids == {d \in DOMAIN ag : Expired(ag[d], t)}
    IN  [agents |-> Restrict(ag, (DOMAIN ag) \ expired_dids),
         result |-> Cardinality(expired_dids),
         expired |-> expired_dids]

\* ----------------------------------------------- registry, driven directly
EmptyMap == [d \in {} |-> None]

RegInit ==
    /\ agents = EmptyMap
    /\ now = 0
    /\ ret = [op |-> "init", did |-> 0, value |-> None]
    /\ counted = [d \in DIDs |-> 0]
    /\ removedBy = [d \in DIDs |-> "none"]

\* time passes
Tick ==
    /\ now < MaxTime
    /\ now' = now + 1
    /\ ret' = [op |-> "tick", did |-> 0, value |-> None]
    /\ UNCHANGED <<agents, counted, removedBy>>
    /\ UNCHANGED gwVars
    /\ UNCHANGED <<lockVars, webrtcVars, extVars>>

\* await registry.register(did, entry); the tests build entries whose
\* last_activity lies in the past
Register(d, activity) ==
    /\ activity <= now
    /\ agents' = register(agents, d, RegistryEntry(d, KeyOf(d), activity, activity))
    /\ counted' = [counted EXCEPT ![d] = 0]
    /\ removedBy' = [removedBy EXCEPT ![d] = "none"]
    /\ ret' = [op |-> "register", did |-> d, value |-> None]
    /\ UNCHANGED now
    /\ UNCHANGED gwVars
    /\ UNCHANGED <<lockVars, webrtcVars, extVars>>

\* await registry.unregister(did)
Unregister(d) ==
    LET r == unregister(agents, d)
    IN  /\ agents' = r.agents
        /\ removedBy' = IF r.result THEN [removedBy EXCEPT ![d] = "unregister"]
                        ELSE removedBy
        /\ ret' = [op |-> "unregister", did |-> d, value |-> r.result]
        /\ UNCHANGED <<now, counted>>
        /\ UNCHANGED gwVars
        /\ UNCHANGED <<lockVars, webrtcVars, extVars>>

\* await registry.get(did)
Get(d) ==
    LET r == get(agents, d, now)
    IN  /\ agents' = r.agents
        /\ removedBy' = IF d \in DOMAIN agents /\ d \notin DOMAIN r.agents
                        THEN [removedBy EXCEPT ![d] = "get"]
                        ELSE removedBy
        /\ ret' = [op |-> "get", did |-> d, value |-> r.result]
        /\ UNCHANGED <<now, counted>>
        /\ UNCHANGED gwVars
        /\ UNCHANGED <<lockVars, webrtcVars, extVars>>

\* await registry.list_agents()
ListAgents ==
    LET r == list_agents(agents, now)
    IN  /\ agents' = r.agents
        /\ removedBy' = [d \in DIDs |->
               IF d \in DOMAIN agents /\ d \notin DOMAIN r.agents
               THEN "list" ELSE removedBy[d]]
        /\ ret' = [op |-> "list", did |-> 0, value |-> r.result]
        /\ UNCHANGED <<now, counted>>
        /\ UNCHANGED gwVars
        /\ UNCHANGED <<lockVars, webrtcVars, extVars>>

\* await registry.touch(did)
Touch(d) ==
    /\ agents' = touch(agents, d, now)
    /\ ret' = [op |-> "touch", did |-> d, value |-> None]
    /\ UNCHANGED <<now, counted, removedBy>>
    /\ UNCHANGED gwVars
    /\ UNCHANGED <<lockVars, webrtcVars, extVars>>

\* await registry.cleanup_expired()
CleanupExpired ==
    LET r == cleanup_expired(agents, now)
    IN  /\ agents' = r.agents
        /\ counted' = [d \in DIDs |->
               IF d \in r.expired THEN counted[d] + 1 ELSE counted[d]]
        /\ removedBy' = [d \in DIDs |->
               IF d \in DOMAIN agents /\ d \notin DOMAIN r.agents
               THEN "cleanup" ELSE removedBy[d]]
        /\ ret' = [op |-> "cleanup", did |-> 0, value |-> r.result]
        /\ UNCHANGED now
        /\ UNCHANGED gwVars
        /\ UNCHANGED <<lockVars, webrtcVars, extVars>>

GwInit ==
    /\ agents_by_ws = [w \in {} |-> 0]
    /\ pc = [w \in WS |-> "idle"]
    /\ hist = [w \in WS |-> <<>>]
    /\ nread = [w \in WS |-> 0]
    /\ peerGone = [w \in WS |-> FALSE]
    /\ sent = [w \in WS |-> <<>>]
    /\ nframes = 0

\* asyncio.Lock() as AgentRegistry.__init__ builds it; no task exists yet
NoCall == [name |-> "none", did |-> 0]

LockInit ==
    /\ lock_locked = FALSE
    /\ lock_waiters = <<>>
    /\ running = 0
    /\ tpc = [t \in 1..MaxTasks |-> "unborn"]
    /\ top = [t \in 1..MaxTasks |-> NoCall]
    /\ woken = {}
    /\ lockLog = <<>>

\* the two PeerConnection instances of a negotiation, by peer_id
Peers == {"P", "Q"}

Labels == 1..MaxLabels

\* DataChannelConfig.id: NoId stands for None
NoId == 0
ChannelIds == 1..MaxLabels

\* no channel: an empty dict keyed by label
NoChannels == [l \in {} |-> 0]

\* PeerConnection.__init__ with the mock backend (peer.py:77-108): both
\* states NEW, no session description, no candidate, no channel, no
\* callback.  aiortc is no dependency of the repository, AIORTC_AVAILABLE is
\* False and _use_aiortc is False for every instance.
NewPeer ==
    [connection_state |-> "new", ice_connection_state |-> "new",
     local_offer |-> None, remote_offer |-> None,
     local_answer |-> None, remote_answer |-> None,
     ice_candidates |-> <<>>, local_ice_candidates |-> <<>>,
     data_channels |-> NoChannels, callbacks |-> {}]

NoPeerCall == [peer |-> "none", op |-> "init", raised |-> FALSE, fired |-> <<>>]

PeerInit ==
    /\ peer = [p \in Peers |-> NewPeer]
    /\ pret = NoPeerCall

NoManagerCall == [op |-> "init", label |-> 0, id |-> NoId, raised |-> FALSE, object |-> 0]

\* DataChannelManager.__init__ (datachannel.py:123-127)
DcmInit ==
    /\ heap = <<>>
    /\ channels = NoChannels
    /\ channels_by_id = NoChannels
    /\ dret = NoManagerCall

\* ------------------------------------------------ retry manager: state
\* Python floats, kept exact as fractions <<numerator, denominator>> in
\* lowest terms; the values used are representable, so no rounding occurs
RECURSIVE GCD(_, _)
GCD(a, b) == IF b = 0 THEN a ELSE GCD(b, a % b)

Abs(x) == IF x < 0 THEN -x ELSE x

Norm(q) ==
    IF q[1] = 0 THEN <<0, 1>>
    ELSE LET g == GCD(Abs(q[1]), q[2]) IN <<q[1] \div g, q[2] \div g>>

Rat(n, d) == Norm(<<n, d>>)

RMul(a, b) == Norm(<<a[1] * b[1], a[2] * b[2]>>)

RAdd(a, b) == Norm(<<a[1] * b[2] + b[1] * a[2], a[2] * b[2]>>)

RLeq(a, b) == a[1] * b[2] <= b[1] * a[2]

\* min(a, b)
RMin(a, b) == IF RLeq(a, b) THEN a ELSE b

\* a ** k
RECURSIVE RPow(_, _)
RPow(a, k) == IF k = 0 THEN Rat(1, 1) ELSE RMul(a, RPow(a, k - 1))

\* RetryStrategy
RetryStrategy == {"exponential", "linear", "fixed"}

\* RetryConfig (a dataclass: no field is validated)
RetryConfig(max_retries, initial_delay, max_delay, backoff_multiplier, strategy, jitter) ==
    [max_retries |-> max_retries, initial_delay |-> initial_delay,
     max_delay |-> max_delay, backoff_multiplier |-> backoff_multiplier,
     strategy |-> strategy, jitter |-> jitter]

\* RetryConfig()
DefaultRetryConfig ==
    RetryConfig(10, Rat(1, 1), Rat(60, 1), Rat(2, 1), "exponential", Rat(1, 10))

\* last_error is None
NoError == 0

\* RetryState.__init__ (last_retry_time and next_retry_time are written
\* but never read by execute_with_retry and are left out)
RetryState(config) ==
    [config |-> config, attempt_count |-> 0, last_error |-> NoError,
     total_delays |-> Rat(0, 1)]

\* the execute_with_retry calls made on the one manager
Calls == 1..MaxCalls

\* a call that has not been made yet
NotCalled ==
    [pc |-> "idle", invoked |-> 0, failures |-> 0, exhausted_fired |-> 0,
     thrown |-> NoError, raised |-> NoError, attempts_made |-> 0,
     last_error |-> NoError, delays |-> <<>>]

\* ConnectionRetryManager.__init__
RetryInit(config) ==
    /\ retry_state = RetryState(config)
    /\ rcall = [c \in Calls |-> NotCalled]
    /\ nerrors = 0
    /\ delay_log = <<>>

\* ----------------------------------------------- gateway client: state
Sockets == 1..MaxSockets
ConnectCalls == 1..MaxConnects
DisconnectCalls == 1..MaxDisconnects

\* _websocket is None, _receive_task is None
NoSocket == 0
NoTask == 0

\* GatewayClient.__init__
GatewayClient(reconnect_interval, max_reconnect_attempts) ==
    [state |-> "DISCONNECTED", websocket |-> NoSocket, receive_task |-> NoTask,
     registered |-> FALSE,
     reconnect_interval |-> reconnect_interval,
     max_reconnect_attempts |-> max_reconnect_attempts,
     message_handlers |-> <<>>, error_handlers |-> <<>>]

\* what one step of the client did: the exception it raised ("" for none),
\* whether it wrote to the transport, whether the call it belongs to ended,
\* the message handlers it invoked, the errors it gave to the error
\* handlers, and the state changes it made through _set_state
ClientStep(op, k) ==
    [op |-> op, k |-> k, frame |-> "", raised |-> "", written |-> FALSE,
     returned |-> FALSE, invoked |-> <<>>, errors |-> <<>>, moves |-> <<>>]

\* a connect() call that has not been made
NotConnecting ==
    [pc |-> "idle", reconnect_count |-> 0, current_interval |-> 0,
     slept |-> <<>>, socket |-> NoSocket, interrupted |-> FALSE]

\* a disconnect() call that has not been made
NotDisconnecting == [pc |-> "idle", awaited |-> NoTask, closing |-> NoSocket]

\* a GatewayClient as its constructor leaves it, nothing called on it yet
ClientInit(c) ==
    /\ client = c
    /\ socks = [w \in Sockets |-> "unopened"]
    /\ rtask = [t \in Sockets |-> [pc |-> "none", ws |-> NoSocket, cancelling |-> FALSE]]
    /\ conn = [k \in ConnectCalls |-> NotConnecting]
    /\ disc = [k \in DisconnectCalls |-> NotDisconnecting]
    /\ cret = ClientStep("init", 0)

\* ------------------------------------------------ message signer: state
Keys == 1..MaxKeys

\* nothing signed yet, nothing verified yet
NoSignature == [m |-> <<>>, key |-> 0, signature |-> [b64 |-> [signer |-> 0, data |-> [utf8 |-> <<>>]]]]
NoVerify ==
    [op |-> "init", m |-> <<>>, signature |-> [b64 |-> [signer |-> 0, data |-> [utf8 |-> <<>>]]],
     did |-> <<"", [b58 |-> [pub |-> 0]]>>, value |-> FALSE, raised |-> FALSE]

SignInit ==
    /\ signed = NoSignature
    /\ vret = NoVerify

\* ------------------------------------------------- protocol data: state
\* no Message has been constructed
NoParse == [op |-> "init", type |-> "", keys |-> {}, raised |-> FALSE, model |-> ""]

\* no register() has run on the client that holds key K
NoRegister(K) ==
    [did_key |-> K, op |-> "init", signed |-> <<>>, wire |-> <<>>]

ProtoInit(K) ==
    /\ parsed = NoParse
    /\ reg = NoRegister(K)

Init == RegInit /\ GwInit /\ LockInit /\ PeerInit /\ DcmInit
        /\ RetryInit(DefaultRetryConfig)
        /\ ClientInit(GatewayClient(1, 5))
        /\ SignInit
        /\ ProtoInit(1)

RegNext ==
    \/ Tick
    \/ \E d \in DIDs, a \in Times : Register(d, a)
    \/ \E d \in DIDs : Unregister(d)
    \/ \E d \in DIDs : Get(d)
    \/ ListAgents
    \/ \E d \in DIDs : Touch(d)
    \/ CleanupExpired

SpecRegistry == Init /\ [][RegNext]_vars

\* -------------------------------------------------------------- protocol
\* aiconexus.protocol.models.MessageType
MessageType ==
    {"REGISTER", "UNREGISTER", "OFFER", "ANSWER", "ICE_CANDIDATE", "INTENT",
     "EXEC_REQUEST", "EXEC_RESPONSE", "ERROR", "PING", "PONG"}

\* The text of a frame.  kind "garbage" is text that is not JSON, kind
\* "badschema" is JSON that the Message model rejects, kind "msg" is JSON
\* that the Message model accepts.
Frame(k, t, f, to, i) ==
    [kind |-> k, type |-> t, from |-> f, to |-> to, id |-> i]

\* the types the gateway forwards, server.py:227-237
Signaling == {"OFFER", "ANSWER", "ICE_CANDIDATE"}

\* The frames a client writes as the i-th frame of its connection: text
\* that is not JSON, JSON that is no Message, signaling frames to any agent
\* and frames of the other types addressed to the sender itself, as
\* GatewayClient.register addresses its REGISTER (socket.py:325).
ClientFrames(i) ==
    {Frame("garbage", "NONE", 0, 0, i), Frame("badschema", "NONE", 0, 0, i)}
    \cup {Frame("msg", t, f, to, i) : t \in Signaling, f \in DIDs, to \in DIDs}
    \cup {Frame("msg", t, f, f, i) : t \in MessageType \ Signaling, f \in DIDs}

\* json.loads(text): raises JSONDecodeError on text that is not JSON
json_loads_raises(frame) == frame.kind = "garbage"

\* Message(**dict): raises ValidationError unless the schema is met
Message_raises(frame) == frame.kind # "msg"

\* The payload of a validated Message is an instance of one of the
\* BasePayload models of the Union (models.py:134-146), never a dict.  The
\* clients of this model send the payload that belongs to the type.
PayloadModel(frame) ==
    CASE frame.type = "REGISTER" ->
             [model |-> "RegisterPayload", fields |-> {"public_key"}]
      [] frame.type \in {"OFFER", "ANSWER"} ->
             [model |-> "OfferPayload", fields |-> {"sdp"}]
      [] frame.type = "ICE_CANDIDATE" ->
             [model |-> "ICECandidatePayload",
              fields |-> {"candidate", "sdp_mid", "sdp_mline_index"}]
      [] OTHER ->
             [model |-> "UnregisterPayload", fields |-> {"reason"}]

\* The members of the Union of Message.payload in the order of their
\* declaration (models.py:134-146), each with the message type its
\* docstring names, its required fields and all its fields.  BasePayload
\* forbids any other field.
PayloadUnion ==
    <<[type |-> "REGISTER", model |-> "RegisterPayload",
       required |-> {"public_key"}, fields |-> {"public_key"}],
      [type |-> "UNREGISTER", model |-> "UnregisterPayload",
       required |-> {}, fields |-> {"reason"}],
      [type |-> "OFFER", model |-> "OfferPayload",
       required |-> {"sdp"}, fields |-> {"sdp"}],
      [type |-> "ANSWER", model |-> "AnswerPayload",
       required |-> {"sdp"}, fields |-> {"sdp"}],
      [type |-> "ICE_CANDIDATE", model |-> "ICECandidatePayload",
       required |-> {"candidate"},
       fields |-> {"candidate", "sdp_mid", "sdp_mline_index"}],
      [type |-> "INTENT", model |-> "IntentPayload",
       required |-> {},
       fields |-> {"query", "context", "task", "params", "status",
                   "required_input", "cost"}],
      [type |-> "EXEC_REQUEST", model |-> "ExecRequestPayload",
       required |-> {}, fields |-> {"args", "timeout_ms", "stream"}],
      [type |-> "EXEC_RESPONSE", model |-> "ExecResponsePayload",
       required |-> {},
       fields |-> {"result", "error", "status", "execution_time_ms", "stream_url"}],
      [type |-> "ERROR", model |-> "ErrorPayload",
       required |-> {"code", "message"}, fields |-> {"code", "message", "details"}],
      [type |-> "PING", model |-> "PingPayload",
       required |-> {}, fields |-> {"sequence"}],
      [type |-> "PONG", model |-> "PongPayload",
       required |-> {}, fields |-> {"sequence"}]>>

\* a payload dict with these keys, each value of its field's type, meets
\* the schema of a member of the Union
Fits(keys, member) == member.required \subseteq keys /\ keys \subseteq member.fields

\* Validation of the field payload of Message(type=..., payload={...}): the
\* Union has no discriminator, so the dict becomes the first member, in
\* declaration order, whose schema it meets, whatever the type is (every
\* member that accepts the dict sets the same fields); ValidationError
\* when no member accepts it
validate_payload(type, keys) ==
    LET fit == {i \in DOMAIN PayloadUnion : Fits(keys, PayloadUnion[i])}
    IN  IF fit = {}
        THEN [raised |-> TRUE, model |-> ""]
        ELSE [raised |-> FALSE,
              model |-> PayloadUnion[CHOOSE i \in fit : \A j \in fit : i <= j].model]

\* the keys of the payload dicts Message is given
PayloadKeys == {"public_key", "sdp", "reason", "candidate", "sequence", "other"}

\* Message(id=..., type=type, payload={k: ... for k in keys}, ...): every
\* other field is valid; a type outside MessageType is rejected
NewMessage(type, keys) ==
    /\ keys \subseteq PayloadKeys
    /\ LET r == IF type \in MessageType THEN validate_payload(type, keys)
                ELSE [raised |-> TRUE, model |-> ""]
       IN  parsed' = [op |-> "Message", type |-> type, keys |-> keys,
                      raised |-> r.raised, model |-> r.model]
    /\ UNCHANGED reg
    /\ UNCHANGED <<coreVars, retryVars, clientVars, signVars>>

MessageNext ==
    \E type \in MessageType \cup {"BOGUS"} : \E keys \in SUBSET PayloadKeys :
        NewMessage(type, keys)

SpecMessage == Init /\ [][MessageNext]_vars

\* the public methods pydantic.BaseModel gives every model
BaseModelMethods ==
    {"model_dump", "model_dump_json", "model_copy", "model_validate",
     "dict", "json", "copy"}

\* Attribute lookup on a payload model: a field, a BaseModel method, or
\* AttributeError.  BaseModel defines no method named get.
HasAttr(payload, name) ==
    name \in payload.fields \cup BaseModelMethods

\* ---------------------------------------------------------------- gateway
\* the ERROR frame of server.py:154-165
ErrorFrame(msg) ==
    [kind |-> "msg", type |-> "ERROR", from |-> GatewayDid, to |-> msg.from,
     id |-> msg.id, code |-> "INVALID_MESSAGE"]

\* the record of websocket.close() in what the gateway wrote
CloseMark ==
    [kind |-> "close", type |-> "NONE", from |-> GatewayDid, to |-> 0,
     id |-> 0, code |-> "NONE"]

\* server.py:153, the test of the first frame's type
IsRegister(msg) == msg.type = "REGISTER"

\* the frames of w that receive_text has not returned yet
Unread(w) == SubSeq(hist[w], nread[w] + 1, Len(hist[w]))

\* websocket.accept(subprotocol="ioap.v1"), server.py:144
Accept(w) ==
    /\ pc[w] = "idle"
    /\ pc' = [pc EXCEPT ![w] = "awaiting"]
    /\ UNCHANGED <<agents_by_ws, hist, nread, peerGone, sent, nframes>>
    /\ UNCHANGED regVars
    /\ UNCHANGED <<lockVars, webrtcVars, extVars>>

\* The client of w writes a frame.  A client goes on writing only when it
\* opened with a REGISTER frame, as the protocol asks.
ClientSend(w, frame) ==
    /\ pc[w] = "awaiting"
    /\ ~peerGone[w]
    /\ nframes < MaxFrames
    /\ hist[w] # <<>> => hist[w][1].kind = "msg" /\ hist[w][1].type = "REGISTER"
    /\ frame \in ClientFrames(Len(hist[w]) + 1)
    /\ hist' = [hist EXCEPT ![w] = Append(@, frame)]
    /\ nframes' = nframes + 1
    /\ UNCHANGED <<agents_by_ws, pc, nread, peerGone, sent>>
    /\ UNCHANGED regVars
    /\ UNCHANGED <<lockVars, webrtcVars, extVars>>

\* the client of w closes its side, or the transport breaks
ClientClose(w) ==
    /\ pc[w] = "awaiting"
    /\ ~peerGone[w]
    /\ peerGone' = [peerGone EXCEPT ![w] = TRUE]
    /\ UNCHANGED <<agents_by_ws, pc, hist, nread, sent, nframes>>
    /\ UNCHANGED regVars
    /\ UNCHANGED <<lockVars, webrtcVars, extVars>>

\* the finally block, server.py:197-203.  agent_did is the set of values
\* of the local variable: {} while it is None, {d} once line 170 has set it.
Finally(w, agent_did) ==
    /\ agents_by_ws' = [x \in (DOMAIN agents_by_ws) \ {w} |-> agents_by_ws[x]]
    /\ agents' = IF agent_did # {}
                 THEN unregister(agents, CHOOSE d \in agent_did : TRUE).agents
                 ELSE agents
    /\ pc' = [pc EXCEPT ![w] = "closed"]

\* _handle_connection from receive_text (server.py:148) to its return.
\* writes is the number of the two writes of the rejection (send_text,
\* close) that the transport carries out before it raises; a transport
\* whose peer is there carries out both.
HandleConnection(w, writes) ==
    /\ pc[w] = "awaiting"
    /\ writes \in 0..2
    /\ ~peerGone[w] => writes = 2
    /\ IF Unread(w) = <<>>
       THEN \* receive_text raises WebSocketDisconnect
            /\ peerGone[w]
            /\ writes = 2
            /\ Finally(w, {})
            /\ UNCHANGED <<nread, sent>>
       ELSE LET frame == Head(Unread(w))
            IN  /\ nread' = [nread EXCEPT ![w] = @ + 1]
                /\ IF json_loads_raises(frame) \/ Message_raises(frame)
                   THEN \* JSONDecodeError or ValidationError, logged
                        /\ writes = 2
                        /\ Finally(w, {})
                        /\ UNCHANGED sent
                   ELSE IF ~IsRegister(frame)
                   THEN \* ERROR frame, close, return
                        /\ sent' = [sent EXCEPT ![w] =
                               IF writes = 0 THEN @
                               ELSE IF writes = 1 THEN Append(@, ErrorFrame(frame))
                               ELSE Append(Append(@, ErrorFrame(frame)), CloseMark)]
                        /\ Finally(w, {})
                   ELSE \* agent_did is set at line 170; line 171 looks up
                        \* the attribute get of the payload model
                        /\ writes = 2
                        /\ ~HasAttr(PayloadModel(frame), "get")
                        /\ Finally(w, {frame.from})
                        /\ UNCHANGED sent
    /\ UNCHANGED <<hist, peerGone, nframes>>
    /\ UNCHANGED <<now, ret, counted, removedBy>>
    /\ UNCHANGED <<lockVars, webrtcVars, extVars>>

GwNext ==
    \/ \E w \in WS : Accept(w)
    \/ \E w \in WS : \E i \in 1..MaxFrames : \E f \in ClientFrames(i) : ClientSend(w, f)
    \/ \E w \in WS : ClientClose(w)
    \/ \E w \in WS : \E k \in 0..2 : HandleConnection(w, k)

Spec == Init /\ [][GwNext]_vars

\* ------------------------------------- the registry lock, task by task
\* The tasks of one event loop calling the registry concurrently, as
\* asyncio.gather starts them (test_registry.py:222-240) and as connection
\* handlers and the cleanup loop do.  The event loop runs one task at a
\* time, from where it was resumed to its next suspension.
Tasks == 1..MaxTasks

\* the calls a task can make
RegistryCalls ==
    {[name |-> n, did |-> d] : n \in {"register", "unregister", "get", "touch"},
                               d \in DIDs}
    \cup {[name |-> n, did |-> 0] : n \in {"list", "cleanup"}}

\* the statements a call executes while it holds the lock
ApplyCall(ag, call, t) ==
    CASE call.name = "register" ->
             register(ag, call.did, RegistryEntry(call.did, KeyOf(call.did), t, t))
      [] call.name = "unregister" -> unregister(ag, call.did).agents
      [] call.name = "get" -> get(ag, call.did, t).agents
      [] call.name = "touch" -> touch(ag, call.did, t)
      [] call.name = "list" -> list_agents(ag, t).agents
      [] OTHER -> cleanup_expired(ag, t).agents

\* a body that awaits between taking the lock and writing the map
SuspendsInBody_Register(call) == call.name = "register"

\* Whether the body of a call holds an await.  None does: the statements
\* under "async with self._lock" are dict operations, datetime arithmetic
\* and logger.debug.
SuspendsInBody(call) == FALSE

\* the fast path of asyncio.Lock.acquire: not locked and nobody waiting
LockFree == ~lock_locked /\ lock_waiters = <<>>

\* a sequence without the element x
Without(seq, x) == SelectSeq(seq, LAMBDA y : y # x)

\* the positions at which a task holds the lock
InLock == {"body", "suspended", "resumed", "release"}

\* the event loop can resume t: it was just created, or its wait for the
\* lock has a result, or its await inside the body has completed
Resumable(t) ==
    \/ tpc[t] = "ready"
    \/ tpc[t] = "waiting" /\ t \in woken
    \/ tpc[t] = "suspended"

\* asyncio.gather / create_task wrap a registry call in a task; tasks are
\* created in order
Spawn(t, call) ==
    /\ tpc[t] = "unborn"
    /\ t > 1 => tpc[t - 1] # "unborn"
    /\ call \in RegistryCalls
    /\ tpc' = [tpc EXCEPT ![t] = "ready"]
    /\ top' = [top EXCEPT ![t] = call]
    /\ UNCHANGED <<lock_locked, lock_waiters, running, woken, lockLog>>
    /\ UNCHANGED <<regVars, gwVars, webrtcVars, extVars>>

\* the idle event loop resumes a task.  A task that waited for the lock
\* leaves the waiters and takes the lock (Lock.acquire after "await fut").
Resume(t) ==
    /\ running = 0
    /\ Resumable(t)
    /\ running' = t
    /\ IF tpc[t] = "waiting"
       THEN /\ lock_waiters' = Without(lock_waiters, t)
            /\ woken' = woken \ {t}
            /\ lock_locked' = TRUE
            /\ tpc' = [tpc EXCEPT ![t] = "body"]
       ELSE /\ tpc' = [tpc EXCEPT ![t] =
                   IF tpc[t] = "ready" THEN "acquire" ELSE "resumed"]
            /\ UNCHANGED <<lock_waiters, woken, lock_locked>>
    /\ UNCHANGED <<top, lockLog>>
    /\ UNCHANGED <<regVars, gwVars, webrtcVars, extVars>>

\* "async with self._lock": Lock.acquire takes a free lock without
\* suspending, and otherwise queues a future and suspends on it
Acquire(t) ==
    /\ running = t
    /\ tpc[t] = "acquire"
    /\ IF LockFree
       THEN /\ lock_locked' = TRUE
            /\ tpc' = [tpc EXCEPT ![t] = "body"]
            /\ UNCHANGED <<lock_waiters, running>>
       ELSE /\ lock_waiters' = Append(lock_waiters, t)
            /\ tpc' = [tpc EXCEPT ![t] = "waiting"]
            /\ running' = 0
            /\ UNCHANGED lock_locked
    /\ UNCHANGED <<top, woken, lockLog>>
    /\ UNCHANGED <<regVars, gwVars, webrtcVars, extVars>>

\* the statements under the lock
Body(t) ==
    /\ running = t
    /\ tpc[t] \in {"body", "resumed"}
    /\ IF tpc[t] = "body" /\ SuspendsInBody(top[t])
       THEN /\ tpc' = [tpc EXCEPT ![t] = "suspended"]
            /\ running' = 0
            /\ UNCHANGED <<agents, lockLog>>
       ELSE /\ agents' = ApplyCall(agents, top[t], now)
            /\ lockLog' = Append(lockLog, top[t])
            /\ tpc' = [tpc EXCEPT ![t] = "release"]
            /\ UNCHANGED running
    /\ UNCHANGED <<lock_locked, lock_waiters, top, woken>>
    /\ UNCHANGED <<now, ret, counted, removedBy>>
    /\ UNCHANGED <<gwVars, webrtcVars, extVars>>

\* leaving "async with": Lock.release unlocks and gives the first waiter's
\* future its result; the call returns and the task is over
Release(t) ==
    /\ running = t
    /\ tpc[t] = "release"
    /\ lock_locked' = FALSE
    /\ woken' = IF lock_waiters = <<>> THEN woken
                ELSE woken \cup {Head(lock_waiters)}
    /\ tpc' = [tpc EXCEPT ![t] = "done"]
    /\ running' = 0
    /\ UNCHANGED <<lock_waiters, top, lockLog>>
    /\ UNCHANGED <<regVars, gwVars, webrtcVars, extVars>>

LockNext ==
    \/ \E t \in Tasks : \E call \in RegistryCalls : Spawn(t, call)
    \/ \E t \in Tasks : Resume(t)
    \/ \E t \in Tasks : Acquire(t)
    \/ \E t \in Tasks : Body(t)
    \/ \E t \in Tasks : Release(t)

SpecLock == Init /\ [][LockNext]_vars

\* ------------------------------------------------------- PeerConnection
\* The session descriptions of the mock backend.  _generate_sdp_offer and
\* _generate_sdp_answer build a fresh text on every call; what the model
\* keeps of it is its kind and the instance that generated it.
Offer(p) == [type |-> "offer", by |-> p]
Answer(p) == [type |-> "answer", by |-> p]

\* webrtc.models.ICECandidate values: the candidate line of the tests
Candidates == {"candidate:123 1 udp 1234 192.168.1.1 5000 typ host"}

\* webrtc.models.DataChannelConfig: label, ordered and id; the other fields
\* keep their defaults
DataChannelConfig(label, ordered, id) ==
    [label |-> label, ordered |-> ordered, id |-> id]

\* the outcome of a PeerConnection method: the instance after the call,
\* whether RuntimeError was raised, and the callbacks that ran, in order
Returned(self, fired) == [self |-> self, raised |-> FALSE, fired |-> fired]
Raised(self) == [self |-> self, raised |-> TRUE, fired |-> <<>>]

\* "if self._on_x: self._on_x(arg)"
Fire(self, slot, arg) ==
    IF slot \in self.callbacks THEN <<[slot |-> slot, arg |-> arg]>> ELSE <<>>

\* create_offer without the test of the state
create_offer_Unguarded(self, p) ==
    Returned([self EXCEPT !.connection_state = "connecting",
                          !.local_offer = Offer(p)],
             Fire(self, "state", "connecting"))

\* PeerConnection.create_offer
create_offer(self, p) ==
    IF self.connection_state # "new"
    THEN Raised(self)
    ELSE Returned([self EXCEPT !.connection_state = "connecting",
                               !.local_offer = Offer(p)],
                  Fire(self, "state", "connecting"))

\* set_remote_offer that also starts connecting
set_remote_offer_Connecting(self, offer) ==
    IF self.connection_state \notin {"new", "connecting"}
    THEN Raised(self)
    ELSE Returned([self EXCEPT !.remote_offer = offer,
                               !.connection_state = "connecting",
                               !.ice_connection_state = "checking"],
                  Fire(self, "ice", "checking"))

\* PeerConnection.set_remote_offer
set_remote_offer(self, offer) ==
    IF self.connection_state \notin {"new", "connecting"}
    THEN Raised(self)
    ELSE Returned([self EXCEPT !.remote_offer = offer,
                               !.ice_connection_state = "checking"],
                  Fire(self, "ice", "checking"))

\* create_answer that returns without an answer when no offer is set
create_answer_Silent(self, p) ==
    IF self.remote_offer = None
    THEN Returned(self, <<>>)
    ELSE Returned([self EXCEPT !.local_answer = Answer(p)], <<>>)

\* PeerConnection.create_answer
create_answer(self, p) ==
    IF self.remote_offer = None
    THEN Raised(self)
    ELSE Returned([self EXCEPT !.local_answer = Answer(p)], <<>>)

\* set_remote_answer that leaves the ICE state alone
set_remote_answer_NoIce(self, answer) ==
    IF self.local_offer = None
    THEN Raised(self)
    ELSE Returned([self EXCEPT !.remote_answer = answer,
                               !.connection_state = "connected"],
                  Fire(self, "state", "connected"))

\* set_remote_answer without the test for a local offer
set_remote_answer_NoOfferCheck(self, answer) ==
    Returned([self EXCEPT !.remote_answer = answer,
                          !.connection_state = "connected",
                          !.ice_connection_state = "connected"],
             Fire(self, "state", "connected") \o Fire(self, "ice", "connected"))

\* PeerConnection.set_remote_answer
set_remote_answer(self, answer) ==
    IF self.local_offer = None
    THEN Raised(self)
    ELSE Returned([self EXCEPT !.remote_answer = answer,
                               !.connection_state = "connected",
                               !.ice_connection_state = "connected"],
                  Fire(self, "state", "connected") \o Fire(self, "ice", "connected"))

\* PeerConnection.add_ice_candidate
add_ice_candidate(self, candidate) ==
    Returned([self EXCEPT !.ice_candidates = Append(@, candidate),
                          !.ice_connection_state = "connected"],
             Fire(self, "ice", "connected"))

\* PeerConnection.add_local_ice_candidate
add_local_ice_candidate(self, candidate) ==
    Returned([self EXCEPT !.local_ice_candidates = Append(@, candidate)],
             Fire(self, "candidate", "candidate"))

\* self._data_channels[config.label] = config
StoreChannel(chans, config) ==
    [l \in (DOMAIN chans) \cup {config.label} |->
        IF l = config.label THEN config ELSE chans[l]]

\* PeerConnection.create_data_channel
create_data_channel(self, config) ==
    IF self.connection_state # "connected"
    THEN Raised(self)
    ELSE Returned([self EXCEPT !.data_channels = StoreChannel(@, config)],
                  Fire(self, "datachannel", "config"))

\* close that keeps the channel map
close_KeepChannels(self) ==
    Returned([self EXCEPT !.connection_state = "closed",
                          !.ice_connection_state = "closed"],
             Fire(self, "state", "closed") \o Fire(self, "ice", "closed"))

\* PeerConnection.close
close(self) ==
    Returned([self EXCEPT !.connection_state = "closed",
                          !.ice_connection_state = "closed",
                          !.data_channels = NoChannels],
             Fire(self, "state", "closed") \o Fire(self, "ice", "closed"))

\* PeerConnection.on_state_change, on_ice_state_change, on_ice_candidate,
\* on_datachannel: the slot holds a callback from now on
on_callback(self, slot) ==
    Returned([self EXCEPT !.callbacks = @ \cup {slot}], <<>>)

\* PeerConnection.is_connected
is_connected(self) == self.connection_state = "connected"

\* a call of method op on instance p with outcome r
PeerCall(p, op, r) ==
    /\ peer' = [peer EXCEPT ![p] = r.self]
    /\ pret' = [peer |-> p, op |-> op, raised |-> r.raised, fired |-> r.fired]
    /\ UNCHANGED <<regVars, gwVars, lockVars, dcmVars, extVars>>

\* await p.create_offer()
CreateOffer(p) ==
    /\ p \in Peers
    /\ PeerCall(p, "create_offer", create_offer(peer[p], p))

\* await p.set_remote_offer(offer); an instance is not given its own offer
SetRemoteOffer(p, offer) ==
    /\ offer.by # p
    /\ PeerCall(p, "set_remote_offer", set_remote_offer(peer[p], offer))

\* await p.create_answer()
CreateAnswer(p) ==
    /\ p \in Peers
    /\ PeerCall(p, "create_answer", create_answer(peer[p], p))

\* await p.set_remote_answer(answer); an instance is not given its own
\* answer
SetRemoteAnswer(p, answer) ==
    /\ answer.by # p
    /\ PeerCall(p, "set_remote_answer", set_remote_answer(peer[p], answer))

\* await p.add_ice_candidate(candidate); the candidates one instance is
\* given are capped at MaxCand
AddIceCandidate(p, candidate) ==
    /\ Len(peer[p].ice_candidates) + Len(peer[p].local_ice_candidates) < MaxCand
    /\ PeerCall(p, "add_ice_candidate", add_ice_candidate(peer[p], candidate))

\* await p.add_local_ice_candidate(candidate)
AddLocalIceCandidate(p, candidate) ==
    /\ Len(peer[p].ice_candidates) + Len(peer[p].local_ice_candidates) < MaxCand
    /\ PeerCall(p, "add_local_ice_candidate",
                add_local_ice_candidate(peer[p], candidate))

\* await p.create_data_channel(config)
CreateDataChannel(p, config) ==
    /\ config.label \in Labels
    /\ PeerCall(p, "create_data_channel", create_data_channel(peer[p], config))

\* await p.close()
Close(p) ==
    /\ p \in Peers
    /\ PeerCall(p, "close", close(peer[p]))

\* the callback slots of an instance
Slots == {"state", "ice", "candidate", "datachannel"}

\* p.on_state_change(cb), p.on_ice_state_change(cb), p.on_ice_candidate(cb),
\* p.on_datachannel(cb)
OnCallback(p, slot) ==
    /\ slot \notin peer[p].callbacks
    /\ PeerCall(p, "on_callback", on_callback(peer[p], slot))

\* One instance P under every order of calls; the session descriptions it
\* is given come from a remote instance Q.
PeerNext ==
    \/ CreateOffer("P")
    \/ SetRemoteOffer("P", Offer("Q"))
    \/ CreateAnswer("P")
    \/ SetRemoteAnswer("P", Answer("Q"))
    \/ \E c \in Candidates : AddIceCandidate("P", c)
    \/ \E c \in Candidates : AddLocalIceCandidate("P", c)
    \/ \E l \in Labels : \E o \in BOOLEAN :
           CreateDataChannel("P", DataChannelConfig(l, o, NoId))
    \/ Close("P")
    \/ \E slot \in Slots : OnCallback("P", slot)

SpecPeer == Init /\ [][PeerNext]_vars

\* the session descriptions that exist: those some instance has created
CreatedOffers == {peer[q].local_offer : q \in {x \in Peers : peer[x].local_offer # None}}
CreatedAnswers == {peer[q].local_answer : q \in {x \in Peers : peer[x].local_answer # None}}

\* Two instances negotiating: each is given the session descriptions the
\* other has created.
NegotiationNext ==
    \/ \E p \in Peers : CreateOffer(p)
    \/ \E p \in Peers : \E o \in CreatedOffers : SetRemoteOffer(p, o)
    \/ \E p \in Peers : CreateAnswer(p)
    \/ \E p \in Peers : \E a \in CreatedAnswers : SetRemoteAnswer(p, a)
    \/ \E p \in Peers : Close(p)

SpecNegotiation == Init /\ [][NegotiationNext]_vars

\* --------------------------------------------------- DataChannelManager
\* d[k] = v and del d[k] on a dict
Put(d, k, v) == [x \in (DOMAIN d) \cup {k} |-> IF x = k THEN v ELSE d[x]]
Del(d, k) == [x \in (DOMAIN d) \ {k} |-> d[x]]

\* DataChannel.__init__ (datachannel.py:27-46)
DataChannel(config) ==
    [label |-> config.label, id |-> config.id, state |-> "connecting",
     buffered_amount |-> 0, message_queue |-> <<>>]

\* DataChannel.open and DataChannel.close
channel_open(channel) == [channel EXCEPT !.state = "open"]
channel_close(channel) == [channel EXCEPT !.state = "closed"]

\* len(str(data).encode()) for the ASCII texts the channel is sent
encoded_len(data) == Len(data)

\* DataChannel.send: RuntimeError unless the channel is open; otherwise the
\* data joins the queue and its encoded length is added to buffered_amount
channel_send(channel, data) ==
    IF channel.state # "open"
    THEN [channel |-> channel, raised |-> TRUE]
    ELSE [channel |-> [channel EXCEPT
                          !.message_queue = Append(@, data),
                          !.buffered_amount = @ + encoded_len(data)],
          raised |-> FALSE]

\* the manager and the objects it has constructed
Manager(h, byLabel, byId) == [heap |-> h, channels |-> byLabel, channels_by_id |-> byId]

\* create_channel that stores the channel whatever the label
create_channel_NoCheck(m, config) ==
    LET oid == Len(m.heap) + 1
        channel == channel_open(DataChannel(config))
    IN  [m |-> Manager(Append(m.heap, channel),
                       Put(m.channels, config.label, oid),
                       IF config.id # NoId
                       THEN Put(m.channels_by_id, config.id, oid)
                       ELSE m.channels_by_id),
         raised |-> FALSE, object |-> oid]

\* DataChannelManager.create_channel: ValueError on a label that is
\* managed; otherwise a new channel, indexed by label and, when it has
\* one, by id, and opened
create_channel(m, config) ==
    IF config.label \in DOMAIN m.channels
    THEN [m |-> m, raised |-> TRUE, object |-> 0]
    ELSE LET oid == Len(m.heap) + 1
             channel == channel_open(DataChannel(config))
         IN  [m |-> Manager(Append(m.heap, channel),
                            Put(m.channels, config.label, oid),
                            IF config.id # NoId
                            THEN Put(m.channels_by_id, config.id, oid)
                            ELSE m.channels_by_id),
              raised |-> FALSE, object |-> oid]

\* DataChannelManager.close_channel: ValueError on a label that is not
\* managed; otherwise the channel is closed and leaves both indexes
close_channel(m, label) ==
    IF label \notin DOMAIN m.channels
    THEN [m |-> m, raised |-> TRUE, object |-> 0]
    ELSE LET oid == m.channels[label]
             channel == m.heap[oid]
         IN  [m |-> Manager([m.heap EXCEPT ![oid] = channel_close(channel)],
                            Del(m.channels, label),
                            IF channel.id # NoId /\ channel.id \in DOMAIN m.channels_by_id
                            THEN Del(m.channels_by_id, channel.id)
                            ELSE m.channels_by_id),
              raised |-> FALSE, object |-> oid]

\* DataChannelManager.close_all: close_channel for every label managed
\* when the call starts
RECURSIVE close_labels(_, _)
close_labels(m, labels) ==
    IF labels = {}
    THEN m
    ELSE LET label == CHOOSE l \in labels : TRUE
         IN  close_labels(close_channel(m, label).m, labels \ {label})

close_all(m) ==
    [m |-> close_labels(m, DOMAIN m.channels), raised |-> FALSE, object |-> 0]

\* DataChannelManager.get_channel_by_id: self._channels_by_id.get(id);
\* object 0 stands for None
get_channel_by_id(m, channel_id) ==
    IF channel_id \in DOMAIN m.channels_by_id
    THEN m.channels_by_id[channel_id]
    ELSE 0

\* the manager as it is now
TheManager == Manager(heap, channels, channels_by_id)

\* a call of a manager method with outcome r
ManagerCall(op, label, id, r) ==
    /\ heap' = r.m.heap
    /\ channels' = r.m.channels
    /\ channels_by_id' = r.m.channels_by_id
    /\ dret' = [op |-> op, label |-> label, id |-> id,
                raised |-> r.raised, object |-> r.object]
    /\ UNCHANGED <<regVars, gwVars, lockVars, peerVars, extVars>>

\* await manager.create_channel(config); a manager constructs at most
\* MaxObjects channels
CreateChannel(label, id) ==
    /\ label \notin DOMAIN channels => Len(heap) < MaxObjects
    /\ ManagerCall("create_channel", label, id,
                   create_channel(TheManager, DataChannelConfig(label, TRUE, id)))

\* await manager.close_channel(label)
CloseChannel(label) ==
    /\ label \in Labels
    /\ ManagerCall("close_channel", label, NoId, close_channel(TheManager, label))

\* await manager.close_all()
CloseAll ==
    /\ dret.op \in {"init", "create_channel", "close_channel", "close_all", "channel.close"}
    /\ ManagerCall("close_all", 0, NoId, close_all(TheManager))

\* await channel.close() on a channel the caller holds, as returned by
\* create_channel or get_channel
ChannelClose(oid) ==
    /\ oid \in 1..Len(heap)
    /\ heap[oid].state # "closed"
    /\ heap' = [heap EXCEPT ![oid] = channel_close(@)]
    /\ dret' = [op |-> "channel.close", label |-> heap[oid].label,
                id |-> heap[oid].id, raised |-> FALSE, object |-> oid]
    /\ UNCHANGED <<channels, channels_by_id>>
    /\ UNCHANGED <<regVars, gwVars, lockVars, peerVars, extVars>>

\* channel = DataChannel(config), constructed by the caller as the unit
\* tests do; the manager does not know the object
NewChannel(label) ==
    /\ Len(heap) < MaxObjects
    /\ heap' = Append(heap, DataChannel(DataChannelConfig(label, TRUE, NoId)))
    /\ dret' = [op |-> "DataChannel", label |-> label, id |-> NoId,
                raised |-> FALSE, object |-> Len(heap) + 1]
    /\ UNCHANGED <<channels, channels_by_id>>
    /\ UNCHANGED <<regVars, gwVars, lockVars, peerVars, extVars>>

\* await channel.open() on a channel the caller holds
ChannelOpen(oid) ==
    /\ oid \in 1..Len(heap)
    /\ heap[oid].state # "open"
    /\ heap' = [heap EXCEPT ![oid] = channel_open(@)]
    /\ dret' = [op |-> "channel.open", label |-> heap[oid].label,
                id |-> heap[oid].id, raised |-> FALSE, object |-> oid]
    /\ UNCHANGED <<channels, channels_by_id>>
    /\ UNCHANGED <<regVars, gwVars, lockVars, peerVars, extVars>>

\* the texts a channel is sent
Datas == {"a", "hello"}

\* await channel.send(data) on a channel the caller holds; one channel is
\* sent at most MaxQueue messages
ChannelSend(oid, data) ==
    /\ oid \in 1..Len(heap)
    /\ Len(heap[oid].message_queue) < MaxQueue
    /\ LET r == channel_send(heap[oid], data)
       IN  /\ heap' = [heap EXCEPT ![oid] = r.channel]
           /\ dret' = [op |-> "channel.send", label |-> heap[oid].label,
                       id |-> heap[oid].id, raised |-> r.raised, object |-> oid]
    /\ UNCHANGED <<channels, channels_by_id>>
    /\ UNCHANGED <<regVars, gwVars, lockVars, peerVars, extVars>>

ManagerNext ==
    \/ \E l \in Labels : \E i \in {NoId} \cup ChannelIds : CreateChannel(l, i)
    \/ \E l \in Labels : CloseChannel(l)
    \/ CloseAll
    \/ \E oid \in 1..MaxObjects : ChannelClose(oid)

SpecChannels == Init /\ [][ManagerNext]_vars

\* The manager under create_channel, close_channel and close_all alone:
\* no caller touches a channel object.
IndexNext ==
    \/ \E l \in Labels : \E i \in {NoId} \cup ChannelIds : CreateChannel(l, i)
    \/ \E l \in Labels : CloseChannel(l)
    \/ CloseAll

SpecIndex == Init /\ [][IndexNext]_vars

\* Channel objects under open, close and send, constructed by the caller
\* or by a manager that may have removed them since.
DataChannelNext ==
    \/ \E l \in Labels : NewChannel(l)
    \/ \E l \in Labels : CreateChannel(l, NoId)
    \/ \E l \in Labels : CloseChannel(l)
    \/ \E oid \in 1..MaxObjects : ChannelOpen(oid)
    \/ \E oid \in 1..MaxObjects : ChannelClose(oid)
    \/ \E oid \in 1..MaxObjects : \E data \in Datas : ChannelSend(oid, data)

SpecDataChannel == Init /\ [][DataChannelNext]_vars

\* --------------------------------------------------------- retry manager
\* random.random(): two of the values of [0, 1)
Randoms == {Rat(0, 1), Rat(1, 2)}

\* RetryState.calculate_delay with the cap left out
calculate_delay_Uncapped(self, r) ==
    LET c == self.config
        delay == IF self.attempt_count = 0 THEN c.initial_delay
                 ELSE IF c.strategy = "exponential"
                      THEN RMul(c.initial_delay,
                                RPow(c.backoff_multiplier, self.attempt_count))
                 ELSE IF c.strategy = "linear"
                      THEN RMul(c.initial_delay, Rat(self.attempt_count + 1, 1))
                 ELSE c.initial_delay
    IN  IF ~RLeq(c.jitter, Rat(0, 1))
        THEN RAdd(delay, RMul(RMul(delay, c.jitter), r))
        ELSE delay

\* RetryState.calculate_delay; r is what random.random() returns
calculate_delay(self, r) ==
    LET c == self.config
        delay == IF self.attempt_count = 0 THEN c.initial_delay
                 ELSE IF c.strategy = "exponential"
                      THEN RMul(c.initial_delay,
                                RPow(c.backoff_multiplier, self.attempt_count))
                 ELSE IF c.strategy = "linear"
                      THEN RMul(c.initial_delay, Rat(self.attempt_count + 1, 1))
                 ELSE c.initial_delay
        capped == RMin(delay, c.max_delay)
    IN  IF ~RLeq(c.jitter, Rat(0, 1))
        THEN RAdd(capped, RMul(RMul(capped, c.jitter), r))
        ELSE capped

\* RetryState.should_retry
should_retry(self) == self.attempt_count < self.config.max_retries

\* RetryState.exhausted
exhausted(self) == self.attempt_count >= self.config.max_retries

\* RetryState.record_attempt
record_attempt(self, error, r) ==
    LET recorded == [self EXCEPT !.attempt_count = @ + 1, !.last_error = error]
    IN  IF should_retry(recorded)
        THEN [recorded EXCEPT
                 !.total_delays = RAdd(@, calculate_delay(recorded, r))]
        ELSE recorded

\* RetryState.reset
reset(self) ==
    [self EXCEPT !.attempt_count = 0, !.last_error = NoError,
                 !.total_delays = Rat(0, 1)]

\* the configurations execute_with_retry is run under
RetryConfigs ==
    {[DefaultRetryConfig EXCEPT !.max_retries = n, !.jitter = Rat(0, 1)] :
        n \in 0..MaxRetries}

\* a caller awaits manager.execute_with_retry(operation, on_failure); the
\* coroutine runs up to its first await, the call of the operation
StartCall(c) ==
    /\ rcall[c].pc = "idle"
    /\ IF c = 1 THEN TRUE ELSE rcall[c - 1].pc # "idle"
    /\ rcall' = [rcall EXCEPT ![c].pc = "operation"]
    /\ UNCHANGED <<retry_state, nerrors, delay_log>>
    /\ UNCHANGED notRetryVars

\* execute_with_retry, lines 172-179: the operation returns
OperationReturns(c) ==
    /\ rcall[c].pc = "operation"
    /\ retry_state' = IF retry_state.attempt_count > 0
                      THEN reset(retry_state) ELSE retry_state
    /\ rcall' = [rcall EXCEPT ![c].pc = "returned", ![c].invoked = @ + 1]
    /\ UNCHANGED <<nerrors, delay_log>>
    /\ UNCHANGED notRetryVars

\* execute_with_retry, lines 172 and 181-206: the operation raises a new
\* exception; on_failure and the callbacks are plain functions that return
OperationRaises(c, r1, r2) ==
    /\ rcall[c].pc = "operation"
    /\ LET e == nerrors + 1
           state == record_attempt(retry_state, e, r1)
           failed == [rcall[c] EXCEPT !.invoked = @ + 1, !.thrown = e,
                                      !.failures = @ + 1]
       IN  /\ nerrors' = e
           /\ retry_state' = state
           /\ IF exhausted(state)
              THEN rcall' = [rcall EXCEPT ![c] =
                        [failed EXCEPT !.pc = "raised",
                                       !.exhausted_fired = @ + 1,
                                       !.raised = e,
                                       !.attempts_made = state.attempt_count,
                                       !.last_error = state.last_error]]
              ELSE rcall' = [rcall EXCEPT ![c] =
                        [failed EXCEPT !.pc = "sleep",
                                       !.delays = Append(@, calculate_delay(state, r2))]]
    /\ UNCHANGED delay_log
    /\ UNCHANGED notRetryVars

\* asyncio.sleep(delay) is over, line 206, and the loop starts again
Wake(c) ==
    /\ rcall[c].pc = "sleep"
    /\ rcall' = [rcall EXCEPT ![c].pc = "operation"]
    /\ UNCHANGED <<retry_state, nerrors, delay_log>>
    /\ UNCHANGED notRetryVars

RetryNext ==
    \/ \E c \in Calls : StartCall(c)
    \/ \E c \in Calls : OperationReturns(c)
    \/ \E c \in Calls : \E r1 \in Randoms, r2 \in Randoms : OperationRaises(c, r1, r2)
    \/ \E c \in Calls : Wake(c)

\* a manager constructed with any of RetryConfigs
InitRetry ==
    /\ RegInit /\ GwInit /\ LockInit /\ PeerInit /\ DcmInit
    /\ ClientInit(GatewayClient(1, 5))
    /\ SignInit
    /\ ProtoInit(1)
    /\ \E config \in RetryConfigs : RetryInit(config)

SpecRetry == InitRetry /\ [][RetryNext]_vars

\* the configurations calculate_delay is applied to
BackoffConfigs ==
    {RetryConfig(MaxAttempts + 1, i, m, b, s, j) :
        i \in {Rat(-1, 1), Rat(0, 1), Rat(1, 1)},
        m \in {Rat(1, 1), Rat(3, 1)},
        b \in {Rat(1, 2), Rat(1, 1), Rat(2, 1)},
        s \in RetryStrategy,
        j \in {Rat(0, 1), Rat(1, 2)}}

\* one failure as execute_with_retry treats it, lines 182 and 197:
\* record_attempt, then calculate_delay
Backoff(r1, r2) ==
    /\ retry_state.attempt_count < MaxAttempts
    /\ retry_state' = record_attempt(retry_state, nerrors + 1, r1)
    /\ nerrors' = nerrors + 1
    /\ delay_log' = Append(delay_log, calculate_delay(retry_state', r2))
    /\ UNCHANGED rcall
    /\ UNCHANGED notRetryVars

\* RetryState.reset
Reset ==
    /\ retry_state.attempt_count > 0
    /\ retry_state' = reset(retry_state)
    /\ delay_log' = <<>>
    /\ nerrors' = 0
    /\ UNCHANGED rcall
    /\ UNCHANGED notRetryVars

BackoffNext ==
    \/ \E r1 \in Randoms, r2 \in Randoms : Backoff(r1, r2)
    \/ Reset

InitBackoff ==
    /\ RegInit /\ GwInit /\ LockInit /\ PeerInit /\ DcmInit
    /\ ClientInit(GatewayClient(1, 5))
    /\ SignInit
    /\ ProtoInit(1)
    /\ \E config \in BackoffConfigs : RetryInit(config)

SpecBackoff == InitBackoff /\ [][BackoffNext]_vars

\* -------------------------------------------------------- gateway client
\* Every await of GatewayClient that can suspend ends a step: the
\* handshake websockets.connect, the backoff asyncio.sleep, the wait for
\* the cancelled receive task, the transport's close, and the wait for the
\* next frame.  _set_state, and handlers that do not themselves suspend,
\* run within the step that calls them.

\* GatewayClient.is_connected
client_is_connected(self) == self.state = "CONNECTED" /\ self.websocket # NoSocket

\* _dispatch_error: every error handler is called with the error; what an
\* error handler raises is logged and dropped
dispatch_error(self, error) ==
    [error |-> error, handlers |-> [i \in 1..Len(self.error_handlers) |-> i]]

\* the message handlers that raise, in registration order
Raising(self) ==
    SelectSeq([i \in 1..Len(self.message_handlers) |-> i],
              LAMBDA i : self.message_handlers[i] = "raises")

\* _dispatch_message leaving the loop at the first handler that raises
dispatch_message_StopAtFirst(self) ==
    LET raising == Raising(self)
        last == IF raising = <<>> THEN Len(self.message_handlers) ELSE raising[1]
    IN  [invoked |-> [i \in 1..last |-> i],
         errors |-> IF raising = <<>> THEN <<>>
                    ELSE <<dispatch_error(self, "HandlerError")>>]

\* _dispatch_message: the handlers are called in list order, and what one
\* of them raises goes to _dispatch_error before the next is called
dispatch_message(self) ==
    LET raising == Raising(self)
    IN  [invoked |-> [i \in 1..Len(self.message_handlers) |-> i],
         errors |-> [j \in 1..Len(raising) |-> dispatch_error(self, "HandlerError")]]

\* GatewayClient.send writing before it validates
send_WriteFirst(self, valid, open) ==
    IF ~client_is_connected(self)
    THEN [raised |-> "ConnectionError", written |-> FALSE, errors |-> <<>>]
    ELSE IF ~open \/ ~valid
    THEN [raised |-> "ProtocolError", written |-> open,
          errors |-> <<dispatch_error(self, "ProtocolError")>>]
    ELSE [raised |-> "", written |-> TRUE, errors |-> <<>>]

\* GatewayClient.send; valid: Message(**message) accepts the dict; open: the
\* transport accepts the write
send(self, valid, open) ==
    IF ~client_is_connected(self)
    THEN [raised |-> "ConnectionError", written |-> FALSE, errors |-> <<>>]
    ELSE IF ~valid \/ ~open
    THEN [raised |-> "ProtocolError", written |-> FALSE,
          errors |-> <<dispatch_error(self, "ProtocolError")>>]
    ELSE [raised |-> "", written |-> TRUE, errors |-> <<>>]

\* the transport _websocket accepts a write
TransportOpen ==
    IF client.websocket = NoSocket THEN FALSE ELSE socks[client.websocket] = "open"

\* asyncio.Task.done()
Done(t) == rtask[t].pc \in {"done", "cancelled"}

\* the values reconnect_interval is given
Intervals == {1, 20, 40}

\* frames the gateway writes: a Message, text that is not JSON, and JSON
\* the Message schema rejects
Inbound == {"valid", "bad_json", "bad_schema"}

\* on_message(handler); the handler returns or raises when it is called
OnMessage(b) ==
    /\ Len(client.message_handlers) < MaxHandlers
    /\ client' = [client EXCEPT !.message_handlers = Append(@, b)]
    /\ cret' = [ClientStep("on_message", 0) EXCEPT !.returned = TRUE]
    /\ UNCHANGED <<socks, rtask, conn, disc>>
    /\ UNCHANGED notClientVars

\* on_error(handler)
OnError(b) ==
    /\ Len(client.error_handlers) < MaxHandlers
    /\ client' = [client EXCEPT !.error_handlers = Append(@, b)]
    /\ cret' = [ClientStep("on_error", 0) EXCEPT !.returned = TRUE]
    /\ UNCHANGED <<socks, rtask, conn, disc>>
    /\ UNCHANGED notClientVars

\* connect(), lines 210-228: up to the handshake
ConnectCall(k) ==
    /\ conn[k].pc = "idle"
    /\ IF k = 1 THEN TRUE ELSE conn[k - 1].pc # "idle"
    /\ IF client.state \in {"CONNECTED", "CONNECTING"}
       THEN /\ conn' = [conn EXCEPT ![k].pc = "returned"]
            /\ cret' = [ClientStep("connect", k) EXCEPT !.returned = TRUE]
            /\ UNCHANGED client
       ELSE /\ client' = [client EXCEPT !.state = "CONNECTING"]
            /\ conn' = [conn EXCEPT ![k].pc = "handshake",
                                    ![k].current_interval = client.reconnect_interval]
            /\ cret' = [ClientStep("connect", k) EXCEPT
                            !.moves = <<<<client.state, "CONNECTING">>>>]
    /\ UNCHANGED <<socks, rtask, disc>>
    /\ UNCHANGED notClientVars

\* connect(), lines 228-241: the handshake succeeds
ConnectOpens(k) ==
    /\ conn[k].pc = "handshake"
    /\ \E w \in Sockets :
        /\ socks[w] = "unopened"
        /\ \A v \in Sockets : v < w => socks[v] # "unopened"
        /\ socks' = [socks EXCEPT ![w] = "open"]
        /\ client' = [client EXCEPT !.websocket = w, !.state = "CONNECTED",
                                    !.receive_task = w]
        /\ rtask' = [t \in Sockets |->
                        IF t = w
                        THEN [pc |-> "created", ws |-> NoSocket, cancelling |-> FALSE]
                        ELSE IF t = client.receive_task /\ ~Done(t)
                        THEN [rtask[t] EXCEPT !.cancelling = TRUE]
                        ELSE rtask[t]]
        /\ conn' = [conn EXCEPT ![k].pc = "returned", ![k].socket = w]
    /\ cret' = [ClientStep("connect", k) EXCEPT
                    !.returned = TRUE,
                    !.moves = <<<<client.state, "CONNECTED">>>>]
    /\ UNCHANGED disc
    /\ UNCHANGED notClientVars

\* connect(), lines 243-260: the handshake raises a WebSocketException or
\* times out
ConnectFails(k) ==
    /\ conn[k].pc = "handshake"
    /\ conn[k].reconnect_count <= MaxReconnect
    /\ LET count == conn[k].reconnect_count + 1
       IN  IF client.max_reconnect_attempts > 0 /\ count > client.max_reconnect_attempts
           THEN /\ client' = [client EXCEPT !.state = "ERROR"]
                /\ conn' = [conn EXCEPT ![k].pc = "raised", ![k].reconnect_count = count]
                /\ cret' = [ClientStep("connect", k) EXCEPT
                                !.returned = TRUE,
                                !.raised = "ConnectionError",
                                !.errors = <<dispatch_error(client, "ConnectionError")>>,
                                !.moves = <<<<client.state, "ERROR">>>>]
           ELSE /\ conn' = [conn EXCEPT ![k].pc = "sleep",
                                        ![k].reconnect_count = count,
                                        ![k].slept = Append(@, conn[k].current_interval)]
                /\ cret' = ClientStep("connect", k)
                /\ UNCHANGED client
    /\ UNCHANGED <<socks, rtask, disc>>
    /\ UNCHANGED notClientVars

\* connect(), lines 263-267: the handshake raises any other exception
ConnectBreaks(k) ==
    /\ conn[k].pc = "handshake"
    /\ client' = [client EXCEPT !.state = "ERROR"]
    /\ conn' = [conn EXCEPT ![k].pc = "raised"]
    /\ cret' = [ClientStep("connect", k) EXCEPT
                    !.returned = TRUE,
                    !.raised = "ConnectionError",
                    !.errors = <<dispatch_error(client, "ConnectionError")>>,
                    !.moves = <<<<client.state, "ERROR">>>>]
    /\ UNCHANGED <<socks, rtask, disc>>
    /\ UNCHANGED notClientVars

\* connect(), lines 260-261 and 222-228: the sleep is over, the interval
\* doubles up to 30 seconds and the next handshake starts
ConnectWakes(k) ==
    /\ conn[k].pc = "sleep"
    /\ conn' = [conn EXCEPT
                   ![k].pc = "handshake",
                   ![k].current_interval =
                       IF 2 * conn[k].current_interval <= 30
                       THEN 2 * conn[k].current_interval ELSE 30]
    /\ cret' = ClientStep("connect", k)
    /\ UNCHANGED <<client, socks, rtask, disc>>
    /\ UNCHANGED notClientVars

\* disconnect(), lines 271-299, up to its first await that suspends; a
\* connect() sleeping in its backoff at this moment is marked interrupted
DisconnectCall(k) ==
    /\ disc[k].pc = "idle"
    /\ IF k = 1 THEN TRUE ELSE disc[k - 1].pc # "idle"
    /\ conn' = [c \in ConnectCalls |->
                   IF conn[c].pc = "sleep"
                   THEN [conn[c] EXCEPT !.interrupted = TRUE] ELSE conn[c]]
    /\ LET t == client.receive_task
           pending == IF t = NoTask THEN FALSE ELSE ~Done(t)
       IN  IF client.state = "DISCONNECTED"
           THEN /\ disc' = [disc EXCEPT ![k].pc = "returned"]
                /\ cret' = [ClientStep("disconnect", k) EXCEPT !.returned = TRUE]
                /\ UNCHANGED <<client, rtask>>
           ELSE IF pending
           THEN /\ client' = [client EXCEPT !.state = "DISCONNECTING"]
                /\ rtask' = [rtask EXCEPT ![t].cancelling = TRUE]
                /\ disc' = [disc EXCEPT ![k].pc = "await_task", ![k].awaited = t]
                /\ cret' = [ClientStep("disconnect", k) EXCEPT
                                !.moves = <<<<client.state, "DISCONNECTING">>>>]
           ELSE IF client.websocket # NoSocket
           THEN /\ client' = [client EXCEPT !.state = "DISCONNECTING"]
                /\ disc' = [disc EXCEPT ![k].pc = "closing",
                                        ![k].closing = client.websocket]
                /\ cret' = [ClientStep("disconnect", k) EXCEPT
                                !.moves = <<<<client.state, "DISCONNECTING">>>>]
                /\ UNCHANGED rtask
           ELSE /\ client' = [client EXCEPT !.state = "DISCONNECTED",
                                            !.registered = FALSE]
                /\ disc' = [disc EXCEPT ![k].pc = "returned"]
                /\ cret' = [ClientStep("disconnect", k) EXCEPT
                                !.returned = TRUE,
                                !.moves = <<<<client.state, "DISCONNECTING">>,
                                            <<"DISCONNECTING", "DISCONNECTED">>>>]
                /\ UNCHANGED rtask
    /\ UNCHANGED socks
    /\ UNCHANGED notClientVars

\* disconnect(), lines 281-299: the cancelled receive task has ended
DisconnectAfterTask(k) ==
    /\ disc[k].pc = "await_task"
    /\ Done(disc[k].awaited)
    /\ IF client.websocket # NoSocket
       THEN /\ disc' = [disc EXCEPT ![k].pc = "closing",
                                    ![k].closing = client.websocket]
            /\ cret' = ClientStep("disconnect", k)
            /\ UNCHANGED client
       ELSE /\ client' = [client EXCEPT !.state = "DISCONNECTED",
                                        !.registered = FALSE]
            /\ disc' = [disc EXCEPT ![k].pc = "returned"]
            /\ cret' = [ClientStep("disconnect", k) EXCEPT
                            !.returned = TRUE,
                            !.moves = <<<<client.state, "DISCONNECTED">>>>]
    /\ UNCHANGED <<socks, rtask, conn>>
    /\ UNCHANGED notClientVars

\* disconnect(), lines 295-299: the transport's close() has returned
DisconnectClosed(k) ==
    /\ disc[k].pc = "closing"
    /\ socks' = [socks EXCEPT ![disc[k].closing] =
                    IF @ = "open" THEN "closed" ELSE @]
    /\ client' = [client EXCEPT !.websocket = NoSocket,
                                !.registered = FALSE,
                                !.state = "DISCONNECTED"]
    /\ disc' = [disc EXCEPT ![k].pc = "returned"]
    /\ cret' = [ClientStep("disconnect", k) EXCEPT
                    !.returned = TRUE,
                    !.moves = <<<<client.state, "DISCONNECTED">>>>]
    /\ UNCHANGED <<rtask, conn>>
    /\ UNCHANGED notClientVars

\* _receive_messages, lines 160-164: the task runs for the first time; a
\* task cancelled before that never enters the coroutine
TaskStarts(t) ==
    /\ rtask[t].pc = "created"
    /\ rtask' = [rtask EXCEPT ![t] =
                    IF rtask[t].cancelling THEN [@ EXCEPT !.pc = "cancelled"]
                    ELSE IF client.websocket = NoSocket THEN [@ EXCEPT !.pc = "done"]
                    ELSE [@ EXCEPT !.pc = "receiving", !.ws = client.websocket]]
    /\ cret' = ClientStep("receive", t)
    /\ UNCHANGED <<client, socks, conn, disc>>
    /\ UNCHANGED notClientVars

\* the CancelledError reaches the task waiting for a frame; neither except
\* clause of _receive_messages catches it
TaskCancelled(t) ==
    /\ rtask[t].pc = "receiving"
    /\ rtask[t].cancelling
    /\ rtask' = [rtask EXCEPT ![t].pc = "cancelled"]
    /\ cret' = ClientStep("receive", t)
    /\ UNCHANGED <<client, socks, conn, disc>>
    /\ UNCHANGED notClientVars

\* _receive_messages, lines 164 and 192-194: the iteration over a closed
\* transport ends after a normal closure and raises ConnectionClosed after
\* an abnormal one
TaskSeesClose(t) ==
    /\ rtask[t].pc = "receiving"
    /\ ~rtask[t].cancelling
    /\ socks[rtask[t].ws] \in {"ok_closed", "aborted", "closed"}
    /\ rtask' = [rtask EXCEPT ![t].pc = "done"]
    /\ IF socks[rtask[t].ws] = "aborted"
       THEN /\ client' = [client EXCEPT !.state = "DISCONNECTED"]
            /\ cret' = [ClientStep("receive", t) EXCEPT
                            !.moves = <<<<client.state, "DISCONNECTED">>>>]
       ELSE /\ cret' = ClientStep("receive", t)
            /\ UNCHANGED client
    /\ UNCHANGED <<socks, conn, disc>>
    /\ UNCHANGED notClientVars

\* _receive_messages, lines 164-190: one frame is read and handled
ReceiveFrame(t, frame) ==
    /\ rtask[t].pc = "receiving"
    /\ ~rtask[t].cancelling
    /\ socks[rtask[t].ws] = "open"
    /\ cret' = [ClientStep("receive", t) EXCEPT
                    !.frame = frame,
                    !.invoked = IF frame = "valid"
                                THEN dispatch_message(client).invoked ELSE <<>>,
                    !.errors = IF frame = "valid" THEN dispatch_message(client).errors
                               ELSE IF frame = "bad_json"
                               THEN <<dispatch_error(client, "ConnectionError")>>
                               ELSE <<dispatch_error(client, "ProtocolError")>>]
    /\ UNCHANGED <<client, socks, rtask, conn, disc>>
    /\ UNCHANGED notClientVars

\* _receive_messages, lines 195-198: the iteration raises something else
ReceiveBreaks(t) ==
    /\ rtask[t].pc = "receiving"
    /\ ~rtask[t].cancelling
    /\ socks[rtask[t].ws] = "open"
    /\ rtask' = [rtask EXCEPT ![t].pc = "done"]
    /\ client' = [client EXCEPT !.state = "ERROR"]
    /\ cret' = [ClientStep("receive", t) EXCEPT
                    !.errors = <<dispatch_error(client, "Exception")>>,
                    !.moves = <<<<client.state, "ERROR">>>>]
    /\ UNCHANGED <<socks, conn, disc>>
    /\ UNCHANGED notClientVars

\* the gateway closes the connection, with a normal close code or without
PeerCloses(w, how) ==
    /\ how \in {"ok_closed", "aborted"}
    /\ socks[w] = "open"
    /\ socks' = [socks EXCEPT ![w] = how]
    /\ cret' = ClientStep("peer", w)
    /\ UNCHANGED <<client, rtask, conn, disc>>
    /\ UNCHANGED notClientVars

\* send(message)
SendMessage(valid) ==
    /\ valid \in BOOLEAN
    /\ LET r == send(client, valid, TransportOpen)
       IN  cret' = [ClientStep("send", 0) EXCEPT
                        !.frame = IF valid THEN "valid" ELSE "bad_schema",
                        !.returned = TRUE,
                        !.raised = r.raised,
                        !.written = r.written,
                        !.errors = r.errors]
    /\ UNCHANGED <<client, socks, rtask, conn, disc>>
    /\ UNCHANGED notClientVars

\* register(public_key): the REGISTER message it builds meets the schema
RegisterAgent ==
    /\ LET r == send(client, TRUE, TransportOpen)
       IN  /\ cret' = [ClientStep("register", 0) EXCEPT
                            !.frame = "valid",
                            !.returned = TRUE,
                            !.raised = r.raised,
                            !.written = r.written,
                            !.errors = r.errors]
           /\ client' = IF r.raised = "" THEN [client EXCEPT !.registered = TRUE]
                        ELSE client
    /\ UNCHANGED <<socks, rtask, conn, disc>>
    /\ UNCHANGED notClientVars

ClientNext ==
    \/ \E k \in ConnectCalls : ConnectCall(k)
    \/ \E k \in ConnectCalls : ConnectOpens(k)
    \/ \E k \in ConnectCalls : ConnectFails(k)
    \/ \E k \in ConnectCalls : ConnectBreaks(k)
    \/ \E k \in ConnectCalls : ConnectWakes(k)
    \/ \E k \in DisconnectCalls : DisconnectCall(k)
    \/ \E k \in DisconnectCalls : DisconnectAfterTask(k)
    \/ \E k \in DisconnectCalls : DisconnectClosed(k)
    \/ \E t \in Sockets : TaskStarts(t)
    \/ \E t \in Sockets : TaskCancelled(t)
    \/ \E t \in Sockets : TaskSeesClose(t)
    \/ \E t \in Sockets : ReceiveBreaks(t)
    \/ \E w \in Sockets : \E how \in {"ok_closed", "aborted"} : PeerCloses(w, how)
    \/ RegisterAgent

\* a client constructed with any interval and attempt limit, and given one
\* error handler
InitClient ==
    /\ RegInit /\ GwInit /\ LockInit /\ PeerInit /\ DcmInit
    /\ RetryInit(DefaultRetryConfig)
    /\ SignInit
    /\ ProtoInit(1)
    /\ \E i \in Intervals, n \in 0..MaxReconnect :
          ClientInit([GatewayClient(i, n) EXCEPT !.error_handlers = <<"returns">>])

SpecClient == InitClient /\ [][ClientNext]_vars

\* one connection, frames arriving on it and messages sent over it, under
\* any handlers
DispatchNext ==
    \/ \E b \in {"returns", "raises"} : OnMessage(b)
    \/ \E b \in {"returns", "raises"} : OnError(b)
    \/ ConnectCall(1)
    \/ ConnectOpens(1)
    \/ \E t \in Sockets : TaskStarts(t)
    \/ \E t \in Sockets : \E frame \in Inbound : ReceiveFrame(t, frame)
    \/ \E t \in Sockets : TaskSeesClose(t)
    \/ \E w \in Sockets : \E how \in {"ok_closed", "aborted"} : PeerCloses(w, how)
    \/ \E valid \in BOOLEAN : SendMessage(valid)

SpecDispatch == Init /\ [][DispatchNext]_vars

\* -------------------------------------------------------- message signer
\* Ed25519 is taken as an ideal signature scheme: a signature names the
\* key pair and the bytes it was made over, and verifies under that public
\* key and those bytes only.  The encodings wrap their argument and the
\* decodings unwrap it.

\* DIDKey.PREFIX
PREFIX == "did:key:z6Mk"

\* DIDKey.public_key_bytes
public_key_bytes(K) == [pub |-> K]

\* base58.b58encode(...).decode("ascii")
b58encode(bytes) == [b58 |-> bytes]

\* base58.b58decode
b58decode(text) == text.b58

\* DIDKey.did
DIDKey_did(K) == <<PREFIX, b58encode(public_key_bytes(K))>>

\* DIDKey.sign
sign(K, data) == [signer |-> K, data |-> data]

\* Ed25519PublicKey.verify returns; otherwise it raises InvalidSignature
ed25519_verify(public_key, signature, data) ==
    signature.signer = public_key.pub /\ signature.data = data

\* base64.b64encode(...).decode("ascii")
b64encode(bytes) == [b64 |-> bytes]

\* base64.b64decode
b64decode(text) == text.b64

\* str.encode("utf-8")
utf8(text) == [utf8 |-> text]

\* the keys a message dict may have, in the order sort_keys puts them
FieldOrder == <<"from", "id", "signature", "timestamp", "to", "type">>

\* the keys of the dicts sign_message and verify_message are tried on
SignedKeys == {"id", "to"}

\* JSON values: the string "a", the string "1" and the number 1
Values == {<<"str", "a">>, <<"str", "1">>, <<"int", "1">>}

\* a dict is the sequence of its items in insertion order
Messages ==
    {m \in UNION {[1..n -> {<<k, v>> : k \in SignedKeys, v \in Values}] :
                     n \in 0..Cardinality(SignedKeys)} :
        \A i, j \in DOMAIN m : i # j => m[i][1] # m[j][1]}

\* data[key]
ValueOf(data, key) == data[CHOOSE i \in DOMAIN data : data[i][1] = key][2]

\* json.dumps of one value: a string, and a member of a str Enum, is
\* quoted, a number is not
json_dumps(value) ==
    IF value[1] \in {"str", "enum"} THEN <<"\"", value[2], "\"">> ELSE <<value[2]>>

\* the keys of data, sorted
SortedKeys(data) ==
    SelectSeq(FieldOrder, LAMBDA f : \E i \in DOMAIN data : data[i][1] = f)

\* MessageSigner.canonical_json writing the keys without their values
canonical_json_KeysOnly(data) ==
    [j \in 1..Len(SortedKeys(data)) |-> <<SortedKeys(data)[j], <<>>>>]

\* MessageSigner.canonical_json: json.dumps(data, separators=(",", ":"),
\* sort_keys=True)
canonical_json(data) ==
    [j \in 1..Len(SortedKeys(data)) |->
        <<SortedKeys(data)[j], json_dumps(ValueOf(data, SortedKeys(data)[j]))>>]

\* MessageSigner.sign_message
sign_message(message_dict, did_key) ==
    b64encode(sign(did_key, utf8(canonical_json(message_dict))))

\* MessageSigner.verify_message: whatever the body raises is caught and
\* False is returned
verify_message(message_dict, signature_b64, from_did) ==
    IF from_did[1] # PREFIX
    THEN [value |-> FALSE, raised |-> FALSE]
    ELSE LET bytes == b58decode(from_did[2])
         IN  IF bytes.pub \notin Keys
             THEN [value |-> FALSE, raised |-> FALSE]
             ELSE [value |-> ed25519_verify(bytes, b64decode(signature_b64),
                                            utf8(canonical_json(message_dict))),
                   raised |-> FALSE]

\* the sender identifiers verify_message is given: the identifier of every
\* key, one with another prefix, and one whose bytes are no public key
DidInputs ==
    {DIDKey_did(K) : K \in Keys}
        \cup {<<"did:web:", b58encode(public_key_bytes(1))>>,
              <<PREFIX, b58encode(public_key_bytes(0))>>}

\* sign_message(m, K)
SignMessage(m, K) ==
    /\ K \in Keys
    /\ signed' = [m |-> m, key |-> K, signature |-> sign_message(m, K)]
    /\ vret' = NoVerify
    /\ UNCHANGED notSignVars

\* verify_message(m, signature, did), given the signature made last or one
\* that no key made
VerifyMessage(m, given, did) ==
    /\ signed.key \in Keys
    /\ LET signature == IF given THEN signed.signature ELSE NoSignature.signature
           r == verify_message(m, signature, did)
       IN  vret' = [op |-> "verify", m |-> m, signature |-> signature, did |-> did,
                    value |-> r.value, raised |-> r.raised]
    /\ UNCHANGED signed
    /\ UNCHANGED notSignVars

SignNext ==
    \/ \E m \in Messages, K \in Keys : SignMessage(m, K)
    \/ \E m \in Messages, did \in DidInputs, given \in BOOLEAN :
          VerifyMessage(m, given, did)

SpecSign == Init /\ [][SignNext]_vars

\* ------------------------------------------- register(): what is signed
\* A text is the sequence of its pieces.  datetime.utcnow() returns a naive
\* datetime; the date and the minute are the same for all of them.
Datetimes ==
    {[second |-> sec, microsecond |-> u, tzinfo |-> "None"] :
        sec \in {"00", "01", "02"}, u \in {0, 384408}}

\* datetime.isoformat(): no fraction when microsecond is 0, an offset only
\* for an aware datetime
isoformat(dt) ==
    <<"2026-01-12T10:00:", dt.second>>
        \o (IF dt.microsecond = 0 THEN <<>> ELSE <<".384408">>)
        \o (IF dt.tzinfo = "None" THEN <<>> ELSE <<"+00:00">>)

\* pydantic's reading of a datetime field given as ISO 8601 text
parse_datetime(text) ==
    [second |-> text[2],
     microsecond |-> IF Len(text) >= 3 /\ text[3] = ".384408" THEN 384408 ELSE 0,
     tzinfo |-> IF text[Len(text)] \in {"Z", "+00:00"} THEN "UTC" ELSE "None"]

\* the fields of Message in declaration order (models.py:127-147);
\* correlation_id (None), payload (a dict of strings) and version ("1.0")
\* are written as they are signed and are left out
ModelFields == <<"id", "timestamp", "from", "to", "type", "signature">>

\* Message(**kwargs): timestamp becomes a datetime and type a MessageType
Message_new(kwargs) ==
    [i \in 1..Len(ModelFields) |->
        LET key == ModelFields[i]
            value == ValueOf(kwargs, key)
        IN  IF key = "timestamp" /\ value[1] = "str"
            THEN <<key, <<"datetime", parse_datetime(value[2])>>>>
            ELSE IF key = "type" /\ value[1] = "str"
            THEN <<key, <<"enum", value[2]>>>>
            ELSE <<key, value>>]

\* message.model_dump(exclude=..., by_alias=True)
model_dump(message, exclude) ==
    SelectSeq(message, LAMBDA item : item[1] \notin exclude)

\* d[key] = value for a key that d has
SetItem(d, key, value) ==
    [i \in DOMAIN d |-> IF d[i][1] = key THEN <<key, value>> ELSE d[i]]

\* MessageSerializer._serialize_datetime: obj.isoformat() + "Z"
serialize_datetime(obj) ==
    [i \in DOMAIN obj |->
        IF obj[i][2][1] = "datetime"
        THEN <<obj[i][1], <<"str", Append(isoformat(obj[i][2][2]), "Z")>>>>
        ELSE obj[i]]

\* MessageSerializer.to_json: json.dumps(data, default=str), the items in
\* the order of the dict
to_json(message_dict) ==
    LET data == serialize_datetime(message_dict)
    IN  [i \in DOMAIN data |-> <<data[i][1], json_dumps(data[i][2])>>]

\* json.loads of such a text: a quoted value is a string
json_loads(text) ==
    [i \in DOMAIN text |->
        <<text[i][1],
          IF Len(text[i][2]) = 3 THEN <<"str", text[i][2][2]>>
          ELSE <<"int", text[i][2][1]>>>>]

\* register(), socket.py:320-337: the dict that is signed and the dict that
\* is given to send()
register_dicts(K, id, utcnow) ==
    LET message == Message_new(<<<<"id", <<"str", id>>>>,
                                 <<"type", <<"enum", "REGISTER">>>>,
                                 <<"from", <<"str", DIDKey_did(K)>>>>,
                                 <<"to", <<"str", DIDKey_did(K)>>>>,
                                 <<"timestamp", <<"datetime", utcnow>>>>,
                                 <<"signature", <<"str", "">>>>>>)
        message_dict == model_dump(message, {"signature"})
        to_sign == SetItem(message_dict, "timestamp",
                           <<"str", isoformat(ValueOf(message_dict, "timestamp")[2])>>)
        signature == sign_message(to_sign, K)
        signed_message == SetItem(message, "signature", <<"str", signature>>)
        send_dict == model_dump(signed_message, {})
    IN  [signed |-> to_sign,
         send |-> SetItem(send_dict, "timestamp",
                          <<"str", isoformat(ValueOf(send_dict, "timestamp")[2])>>)]

\* send(), socket.py:359-362: the text written to the transport
send_text(message) == to_json(model_dump(Message_new(message), {}))

\* str(uuid.uuid4())
Uuids == {"a", "b", "c"}

\* await client.register(public_key) on the client that holds reg.did_key
RegisterSigned(id, utcnow) ==
    /\ LET r == send(client, TRUE, TransportOpen)
           d == register_dicts(reg.did_key, id, utcnow)
       IN  /\ cret' = [ClientStep("register", 0) EXCEPT
                            !.frame = "valid",
                            !.returned = TRUE,
                            !.raised = r.raised,
                            !.written = r.written,
                            !.errors = r.errors]
           /\ client' = IF r.raised = "" THEN [client EXCEPT !.registered = TRUE]
                        ELSE client
           /\ reg' = IF ~client_is_connected(client) THEN reg
                     ELSE [reg EXCEPT !.op = "register",
                                      !.signed = d.signed,
                                      !.wire = IF r.written THEN send_text(d.send)
                                               ELSE <<>>]
    /\ UNCHANGED <<socks, rtask, conn, disc>>
    /\ UNCHANGED parsed
    /\ UNCHANGED <<coreVars, retryVars, signVars>>

\* the frame without its signature, as a receiver takes it from the text
Received == model_dump(json_loads(reg.wire), {"signature"})

\* the receiver of the frame removes the signature and verifies what is
\* left against the sender the frame names
ReceiverVerifies ==
    /\ reg.wire # <<>>
    /\ LET frame == json_loads(reg.wire)
           signature == ValueOf(frame, "signature")[2]
           did == ValueOf(frame, "from")[2]
           r == verify_message(Received, signature, did)
       IN  vret' = [op |-> "receive", m |-> Received, signature |-> signature,
                    did |-> did, value |-> r.value, raised |-> r.raised]
    /\ UNCHANGED signed
    /\ UNCHANGED notSignVars

RegisterNext ==
    \/ ConnectCall(1)
    \/ ConnectOpens(1)
    \/ \E t \in Sockets : TaskStarts(t)
    \/ \E id \in Uuids : \E utcnow \in Datetimes : RegisterSigned(id, utcnow)
    \/ ReceiverVerifies

\* a client constructed with any of the keys
InitRegister ==
    /\ RegInit /\ GwInit /\ LockInit /\ PeerInit /\ DcmInit
    /\ RetryInit(DefaultRetryConfig)
    /\ ClientInit(GatewayClient(1, 5))
    /\ SignInit
    /\ \E K \in Keys : ProtoInit(K)

SpecRegister == InitRegister /\ [][RegisterNext]_vars


\* ================================================================ claims
\* the first frame of w is a REGISTER that meets the Message schema
ValidRegister(frame) == frame.kind = "msg" /\ frame.type = "REGISTER"

\* the gateway will do nothing more for w: the handler has returned, or
\* every frame the client wrote has been received
GatewayDone(w) == pc[w] = "closed" \/ nread[w] = Len(hist[w])

\* w's client opened with a REGISTER that the gateway has received, and is
\* still there
ClientRegistered(w) ==
    /\ nread[w] >= 1
    /\ ValidRegister(hist[w][1])
    /\ ~peerGone[w]

\* the number of times the client frame f occurs in what the gateway wrote to w
Delivered(f, w) ==
    Cardinality({i \in 1..Len(sent[w]) :
        /\ sent[w][i].kind = "msg"
        /\ sent[w][i].type = f.type
        /\ sent[w][i].from = f.from
        /\ sent[w][i].to = f.to
        /\ sent[w][i].id = f.id})

\* C1 (as claimed): a signaling frame that a registered agent A sends to a
\* registered agent B with a live connection is written to B's connection
\* exactly once; when no live connection is registered under the recipient,
\* nothing is delivered anywhere, A gets no ERROR frame and A's connection
\* stays open.
C1_Routing ==
    \A a \in WS :
        (/\ ClientRegistered(a)
         /\ Len(hist[a]) >= 2
         /\ hist[a][2].kind = "msg"
         /\ hist[a][2].type \in Signaling
         /\ GatewayDone(a))
        => LET f == hist[a][2]
               B == {b \in WS \ {a} :
                        ClientRegistered(b) /\ hist[b][1].from = f.to}
           IN  /\ \A b \in B : Delivered(f, b) = 1
               /\ B = {} =>
                     /\ \A x \in WS : Delivered(f, x) = 0
                     /\ \A i \in 1..Len(sent[a]) : sent[a][i].type # "ERROR"
                     /\ pc[a] # "closed"

\* C3 (as claimed): once the gateway has received a schema-valid REGISTER
\* as the first frame of a connection whose client is still there, the
\* registry holds an entry under the frame's sender id with the sender's
\* public key, the connection is mapped to that id and the connection is
\* being served.
C3_Registration ==
    \A w \in WS :
        ClientRegistered(w)
        => LET d == hist[w][1].from
           IN  /\ d \in DOMAIN agents
               /\ agents[d].public_key = KeyOf(d)
               /\ w \in DOMAIN agents_by_ws
               /\ agents_by_ws[w] = d
               /\ pc[w] # "closed"

\* C7 (as claimed): a PING that a registered connection sends is answered
\* with exactly one PONG on that connection, carrying the PING's id, and
\* with none on any other connection.
C7_PingPong ==
    \A w \in WS :
        (/\ ClientRegistered(w)
         /\ Len(hist[w]) >= 2
         /\ hist[w][2].kind = "msg"
         /\ hist[w][2].type = "PING"
         /\ GatewayDone(w))
        => /\ Cardinality({i \in 1..Len(sent[w]) :
                  sent[w][i].type = "PONG" /\ sent[w][i].id = hist[w][2].id}) = 1
           /\ \A x \in WS \ {w} : \A i \in 1..Len(sent[x]) :
                  sent[x][i].type # "PONG"

\* C9 (as claimed): after the gateway is done with a schema-valid frame
\* that a registered, still-open connection sent, the registry holds an
\* entry for that sender, refreshed at the time of processing.
C9_Refresh ==
    \A w \in WS :
        (/\ ClientRegistered(w)
         /\ Len(hist[w]) >= 2
         /\ hist[w][2].kind = "msg"
         /\ GatewayDone(w))
        => LET d == hist[w][1].from
           IN  /\ d \in DOMAIN agents
               /\ agents[d].last_activity = now

\* C2 (as claimed): when the first frame of a connection whose client is
\* still there is a message of a type other than REGISTER, or is malformed,
\* the gateway writes an ERROR frame with code INVALID_MESSAGE and then
\* closes the connection, and the connection has no mapping and no
\* registry entry.
C2_FirstFrame ==
    \A w \in WS :
        (/\ nread[w] >= 1
         /\ ~ValidRegister(hist[w][1])
         /\ ~peerGone[w])
        => /\ Len(sent[w]) = 2
           /\ sent[w][1].type = "ERROR"
           /\ sent[w][1].code = "INVALID_MESSAGE"
           /\ sent[w][2].kind = "close"
           /\ pc[w] = "closed"
           /\ w \notin DOMAIN agents_by_ws
           /\ hist[w][1].kind = "msg" => hist[w][1].from \notin DOMAIN agents

\* an entry of d that is expired now
ExpiredNow(d) ==
    d \in DOMAIN agents /\ now - agents[d].last_activity > Timeout

\* get and list_agents leave an expired entry out of their result and
\* delete it
C5_Read ==
    /\ ret'.op = "get" =>
          (ExpiredNow(ret'.did) =>
               ret'.value = None /\ ret'.did \notin DOMAIN agents')
    /\ ret'.op = "list" =>
          \A d \in DIDs : ExpiredNow(d) =>
               /\ d \notin DOMAIN agents'
               /\ \A e \in ret'.value : e.agent_did # d

\* cleanup_expired deletes the expired entries and returns their number
C5_Sweep ==
    ret'.op = "cleanup" =>
        /\ ret'.value = Cardinality({d \in DIDs : ExpiredNow(d)})
        /\ \A d \in DIDs : ExpiredNow(d) =>
               d \notin DOMAIN agents' /\ counted'[d] = counted[d] + 1

\* get, list_agents and cleanup_expired neither delete nor count an entry
\* that is not expired
C5_Keep ==
    ret'.op \in {"get", "list", "cleanup"} =>
        \A d \in DOMAIN agents : ~ExpiredNow(d) =>
            /\ d \in DOMAIN agents'
            /\ agents'[d] = agents[d]
            /\ counted'[d] = counted[d]

\* every entry that expiry removed was counted exactly once
C5_CountedOnce ==
    \A d \in DIDs :
        removedBy[d] \in {"get", "list", "cleanup"} => counted[d] = 1

\* an entry is counted once when cleanup_expired removed it, and never when
\* get or list_agents removed it first
C5_CountedAtMostOnce ==
    \A d \in DIDs :
        counted[d] = IF d \notin DOMAIN agents /\ removedBy[d] = "cleanup"
                     THEN 1 ELSE 0

\* C5 (as claimed): an expired entry is absent from get() and
\* list_agents(), which delete it; entries that are not expired are never
\* deleted or counted; and over any interleaving of the three calls each
\* expired entry is counted exactly once by cleanup_expired().
C5_Original ==
    [][C5_Read /\ C5_Sweep /\ C5_Keep /\ C5_CountedOnce']_vars

\* C5 (amended): an expired entry is absent from get() and list_agents(),
\* which delete it; cleanup_expired() deletes and counts every entry that
\* is expired when it runs, so an expired entry is counted at most once:
\* once when cleanup_expired() is the call that removes it, and never when
\* get() or list_agents() removed it first; entries that are not expired
\* are never deleted or counted by any of the three.
C5_RegistryTTL ==
    [][C5_Read /\ C5_Sweep /\ C5_Keep /\ C5_CountedAtMostOnce']_vars

\* one expired entry was removed and counted by cleanup_expired, another
\* was removed by get and never counted
C5_Witness ==
    \E d1, d2 \in DIDs :
        /\ d1 # d2
        /\ d1 \notin DOMAIN agents /\ removedBy[d1] = "cleanup" /\ counted[d1] = 1
        /\ d2 \notin DOMAIN agents /\ removedBy[d2] = "get" /\ counted[d2] = 0

\* the registry map after the calls of log ran one after the other
RECURSIVE Replay(_, _)
Replay(ag, log) ==
    IF log = <<>> THEN ag
    ELSE Replay(ApplyCall(ag, Head(log), now), Tail(log))

\* every task has made its call, and the calls were registrations of
\* pairwise distinct ids
AllRegisteredDistinct ==
    /\ \A t \in Tasks : tpc[t] = "done" /\ top[t].name = "register"
    /\ \A t, u \in Tasks : t # u => top[t].did # top[u].did

NegotiationRan(p, q) ==
    /\ pret = [peer |-> p, op |-> "set_remote_answer", raised |-> FALSE, fired |-> <<>>]
    /\ peer[p].local_offer = Offer(p) /\ peer[p].remote_answer = Answer(q)
    /\ peer[p].remote_offer = None /\ peer[p].local_answer = None
    /\ peer[q].remote_offer = Offer(p) /\ peer[q].local_answer = Answer(q)
    /\ peer[q].local_offer = None /\ peer[q].remote_answer = None
    /\ peer[p].connection_state # "closed" /\ peer[q].connection_state # "closed"

\* C13 (as claimed): when the sequence create_offer, set_remote_offer,
\* create_answer, set_remote_answer has run between two fresh instances,
\* the offerer and the answerer both report connected.
C13_Negotiation ==
    \A p, q \in Peers :
        (p # q /\ NegotiationRan(p, q))
        => is_connected(peer[p]) /\ is_connected(peer[q])

\* the instance the step's call was made on
Callee == pret'.peer

\* a successful create_offer happens in NEW, moves to CONNECTING and stores
\* a local offer; in any other state create_offer raises
C14_Step ==
    pret'.op = "create_offer" =>
        IF peer[Callee].connection_state = "new"
        THEN /\ ~pret'.raised
             /\ peer'[Callee].connection_state = "connecting"
             /\ peer'[Callee].local_offer = Offer(Callee)
        ELSE pret'.raised

\* no call brings connection_state back to NEW
C14_NeverNewAgain ==
    \A p \in Peers :
        peer'[p].connection_state = "new" => peer[p].connection_state = "new"

\* an instance that holds a local offer is not in NEW
C14_OfferMade ==
    \A p \in Peers :
        peer[p].local_offer # None => peer[p].connection_state # "new"

\* C14: create_offer succeeds only when connection_state is NEW, then
\* moves it to CONNECTING and stores a local offer; connection_state never
\* returns to NEW, so after one successful create_offer every later
\* create_offer raises, whatever was called in between.
C14_CreateOfferOnce ==
    [][C14_Step /\ C14_NeverNewAgain /\ C14_OfferMade']_vars

\* a second create_offer raised on an instance that made its offer, got
\* its answer and was given a candidate in between
C14_Witness ==
    /\ pret.op = "create_offer" /\ pret.raised
    /\ peer[pret.peer].local_offer = Offer(pret.peer)
    /\ peer[pret.peer].remote_answer # None
    /\ peer[pret.peer].ice_candidates # <<>>

\* the callbacks that run when both states move to s on an instance:
\* the connection-state callback, then the ICE-state callback, each when
\* one is registered
BothFired(self, s) ==
    (IF "state" \in self.callbacks THEN <<[slot |-> "state", arg |-> s]>> ELSE <<>>)
    \o (IF "ice" \in self.callbacks THEN <<[slot |-> "ice", arg |-> s]>> ELSE <<>>)

\* set_remote_answer on an instance without a local offer raises; on one
\* with a local offer it stores the answer it is given, moves both states
\* to CONNECTED and runs the two state callbacks with CONNECTED
C15_Step ==
    pret'.op = "set_remote_answer" =>
        IF peer[Callee].local_offer = None
        THEN pret'.raised
        ELSE /\ ~pret'.raised
             /\ peer'[Callee].remote_answer \in {Answer(q) : q \in Peers \ {Callee}}
             /\ peer'[Callee].connection_state = "connected"
             /\ peer'[Callee].ice_connection_state = "connected"
             /\ pret'.fired = BothFired(peer[Callee], "connected")

\* C15: set_remote_answer requires a local offer on the instance; when
\* there is one the call stores the remote answer, moves connection_state
\* and ice_state to CONNECTED and fires the connection-state and the
\* ICE-state callback with CONNECTED.
C15_SetRemoteAnswer == [][C15_Step]_vars

\* set_remote_answer has just connected an offerer that has both state
\* callbacks registered, and both ran with CONNECTED
C15_Witness ==
    /\ pret.op = "set_remote_answer" /\ ~pret.raised
    /\ pret.fired = <<[slot |-> "state", arg |-> "connected"],
                      [slot |-> "ice", arg |-> "connected"]>>
    /\ peer[pret.peer].remote_answer = Answer("Q")
    /\ peer[pret.peer].connection_state = "connected"
    /\ peer[pret.peer].ice_connection_state = "connected"

\* set_remote_offer is legal in NEW and CONNECTING; there it stores the
\* offer it is given and moves ice_state to CHECKING, and every other field
\* stays as it was
C16_SetRemoteOffer ==
    pret'.op = "set_remote_offer" =>
        IF peer[Callee].connection_state \in {"new", "connecting"}
        THEN /\ ~pret'.raised
             /\ \E q \in Peers \ {Callee} :
                    peer'[Callee] = [peer[Callee] EXCEPT
                                        !.remote_offer = Offer(q),
                                        !.ice_connection_state = "checking"]
        ELSE pret'.raised

\* create_answer is legal once a remote offer is set; it stores a local
\* answer and every other field stays as it was
C16_CreateAnswer ==
    pret'.op = "create_answer" =>
        IF peer[Callee].remote_offer # None
        THEN /\ ~pret'.raised
             /\ peer'[Callee] = [peer[Callee] EXCEPT !.local_answer = Answer(Callee)]
        ELSE pret'.raised

\* C16: the answerer-side calls leave connection_state unchanged:
\* set_remote_offer, legal from NEW or CONNECTING, stores the remote offer
\* and moves only ice_state, to CHECKING; create_answer, legal once a remote
\* offer is set, stores a local answer and changes neither connection_state
\* nor ice_state.
C16_AnswererFrame == [][C16_SetRemoteOffer /\ C16_CreateAnswer]_vars

\* create_answer has just returned on an instance that was given an offer
\* and made none: it holds the offer and its answer, it is still NEW and
\* its ICE state is CHECKING
C16_Witness ==
    /\ pret.op = "create_answer" /\ ~pret.raised
    /\ peer[pret.peer].remote_offer = Offer("Q")
    /\ peer[pret.peer].local_answer = Answer(pret.peer)
    /\ peer[pret.peer].connection_state = "new"
    /\ peer[pret.peer].ice_connection_state = "checking"

\* the channels of the instance the step's call was made on, before and
\* after the call
ChannelsBefore == peer[Callee].data_channels
ChannelsAfter == peer'[Callee].data_channels

\* C17 (as claimed): create_data_channel is legal only while
\* connection_state is CONNECTED, and labels are unique per connection: a
\* call that returns normally has added a channel under a label that named
\* none, and whatever the call does, every channel that existed is still
\* there with the configuration it had.
C17_Step ==
    pret'.op = "create_data_channel" =>
        /\ peer[Callee].connection_state # "connected" => pret'.raised
        /\ \A l \in DOMAIN ChannelsBefore :
               l \in DOMAIN ChannelsAfter /\ ChannelsAfter[l] = ChannelsBefore[l]
        /\ ~pret'.raised =>
               Cardinality(DOMAIN ChannelsAfter) = Cardinality(DOMAIN ChannelsBefore) + 1

C17_UniqueLabels == [][C17_Step]_vars

\* close never raises, moves both states to CLOSED and empties the channel
\* map
C18_Step ==
    pret'.op = "close" =>
        /\ ~pret'.raised
        /\ peer'[Callee].connection_state = "closed"
        /\ peer'[Callee].ice_connection_state = "closed"
        /\ peer'[Callee].data_channels = NoChannels

\* whatever state an instance is in, close returns normally on it, and a
\* second close returns normally too and leaves the instance exactly as
\* the first left it
C18_Idempotent ==
    \A p \in Peers :
        LET first == close(peer[p])
            second == close(first.self)
        IN  /\ ~first.raised /\ ~second.raised
            /\ second.self = first.self

\* C18: close() is legal from every state, moves connection_state and
\* ice_state to CLOSED and empties the channel map, and is idempotent: a
\* second close() never raises and leaves exactly the state the first
\* close() produced.
C18_Close == [][C18_Step /\ C18_Idempotent /\ C18_Idempotent']_vars

\* close has just run on an instance that had been connected: both states
\* are CLOSED and no channel is left
C18_Witness ==
    /\ pret.op = "close" /\ ~pret.raised
    /\ peer[pret.peer].remote_answer # None
    /\ peer[pret.peer].connection_state = "closed"
    /\ peer[pret.peer].ice_connection_state = "closed"
    /\ peer[pret.peer].data_channels = NoChannels

\* the call of the step is made where it is not legal
Illegal ==
    LET self == peer[Callee]
    IN  \/ pret'.op = "create_offer" /\ self.connection_state # "new"
        \/ pret'.op = "set_remote_offer"
               /\ self.connection_state \notin {"new", "connecting"}
        \/ pret'.op = "create_answer" /\ self.remote_offer = None
        \/ pret'.op = "set_remote_answer" /\ self.local_offer = None
        \/ pret'.op = "create_data_channel" /\ self.connection_state # "connected"

\* an illegal call raises, and a call that raises changes no field of any
\* instance and runs no callback
C19_Step ==
    /\ Illegal => pret'.raised
    /\ pret'.raised => peer' = peer /\ pret'.fired = <<>>

\* C19: an illegal transition is never silently ignored: create_offer
\* outside NEW, set_remote_offer outside NEW and CONNECTING, create_answer
\* without a remote offer, set_remote_answer without a local offer and
\* create_data_channel outside CONNECTED raise a state error and change
\* nothing (states, offers, answers, candidates and channels stay as they
\* were), and no callback fires.
C19_IllegalRaises == [][C19_Step]_vars

\* create_answer has just raised on an instance that has every callback
\* registered, holds its own offer and a candidate, and was never given a
\* remote offer
C19_Witness ==
    /\ pret.op = "create_answer" /\ pret.raised /\ pret.fired = <<>>
    /\ peer[pret.peer].remote_offer = None
    /\ peer[pret.peer].local_offer # None
    /\ peer[pret.peer].local_ice_candidates # <<>>
    /\ peer[pret.peer].callbacks = Slots

\* create_channel on a label that is managed raises and leaves the heap of
\* channel objects and both indexes as they were; on any other label it
\* returns a new channel object that is OPEN, indexed under that label,
\* and the channels under the other labels stay where they were
C20_Step ==
    dret'.op = "create_channel" =>
        IF dret'.label \in DOMAIN channels
        THEN /\ dret'.raised
             /\ heap' = heap
             /\ channels' = channels
             /\ channels_by_id' = channels_by_id
        ELSE /\ ~dret'.raised
             /\ DOMAIN channels' = (DOMAIN channels) \cup {dret'.label}
             /\ \A l \in DOMAIN channels : channels'[l] = channels[l]
             /\ Len(heap') = Len(heap) + 1
             /\ \A o \in 1..Len(heap) : heap'[o] = heap[o]
             /\ channels'[dret'.label] = Len(heap')
             /\ dret'.object = Len(heap')
             /\ heap'[Len(heap')].label = dret'.label
             /\ heap'[Len(heap')].state = "open"

\* C20: DataChannelManager.create_channel rejects a duplicate label: when
\* a channel with the label is already managed it raises and leaves the
\* manager unchanged (same channels, same id index, the existing channel's
\* state untouched); otherwise it adds exactly one channel under that
\* label, which is OPEN on return.
C20_CreateChannel == [][C20_Step]_vars

\* create_channel has just raised on a label whose managed channel was
\* closed by its holder and is indexed by an id other than the one asked
\* for: the channel is still managed, still closed, and the id index is as
\* it was
C20_Witness ==
    /\ dret.op = "create_channel" /\ dret.raised
    /\ dret.label \in DOMAIN channels
    /\ heap[channels[dret.label]].state = "closed"
    /\ dret.id # NoId /\ dret.id \notin DOMAIN channels_by_id
    /\ heap[channels[dret.label]].id \in DOMAIN channels_by_id

\* ------------------------------------------------------- retry manager
\* C21: on a manager configured with max_retries = 0, no call of
\* execute_with_retry fires the exhausted callback and none ends by raising
C21_Unlimited ==
    retry_state.config.max_retries = 0 =>
        \A c \in Calls : rcall[c].exhausted_fired = 0 /\ rcall[c].pc # "raised"

\* the delays logged so far never decrease and none is above max_delay
DelaysMonotoneAndCapped ==
    \A i \in DOMAIN delay_log :
        /\ RLeq(delay_log[i], retry_state.config.max_delay)
        /\ \A j \in DOMAIN delay_log : i < j => RLeq(delay_log[i], delay_log[j])

ExponentialNoJitter ==
    /\ retry_state.config.strategy = "exponential"
    /\ retry_state.config.jitter = Rat(0, 1)

C23_Exhaustion ==
    \A c \in Calls :
        (rcall[c].pc = "raised" /\ retry_state.config.max_retries >= 1) =>
            /\ rcall[c].invoked = retry_state.config.max_retries
            /\ rcall[c].failures = retry_state.config.max_retries
            /\ rcall[c].exhausted_fired = 1
            /\ rcall[c].raised = rcall[c].thrown
            /\ rcall[c].attempts_made = retry_state.config.max_retries
            /\ rcall[c].last_error = rcall[c].raised

\* ------------------------------------------------------ gateway client
\* the transitions of the documented state machine
Allowed ==
    {<<"DISCONNECTED", "CONNECTING">>, <<"CONNECTING", "CONNECTED">>,
     <<"CONNECTED", "DISCONNECTING">>, <<"DISCONNECTING", "DISCONNECTED">>}

\* C24: every change of GatewayClient.state is one of DISCONNECTED ->
\* CONNECTING -> CONNECTED -> DISCONNECTING -> DISCONNECTED or a move to
\* ERROR
C24_Transitions ==
    \A i \in DOMAIN cret.moves :
        \/ cret.moves[i][1] = cret.moves[i][2]
        \/ cret.moves[i][2] = "ERROR"
        \/ cret.moves[i] \in Allowed

\* receive tasks that are running and have not been cancelled
LiveTasks == {t \in Sockets : ~Done(t) /\ rtask[t].pc # "none" /\ ~rtask[t].cancelling}

\* C25: a connect() call sleeps reconnect_interval first, then twice the
\* previous delay but never more than 30 seconds; with
\* max_reconnect_attempts = N > 0 it makes at most N + 1 attempts and
\* sleeps at most N times; when it raises, the state is ERROR and a
\* ConnectionError has gone to every error handler; when it opens a
\* transport, the state is CONNECTED and exactly one receive loop is running
C25_BoundedRetry ==
    \A k \in ConnectCalls :
        /\ \A i \in DOMAIN conn[k].slept :
              /\ conn[k].slept[i] <= 30
              /\ i = 1 => conn[k].slept[i] = client.reconnect_interval
              /\ i > 1 => conn[k].slept[i] =
                              IF 2 * conn[k].slept[i - 1] <= 30
                              THEN 2 * conn[k].slept[i - 1] ELSE 30
        /\ client.max_reconnect_attempts > 0 =>
              /\ Len(conn[k].slept) <= client.max_reconnect_attempts
              /\ conn[k].reconnect_count <= client.max_reconnect_attempts + 1
        /\ (cret.op = "connect" /\ cret.k = k /\ cret.raised # "") =>
              /\ client.state = "ERROR"
              /\ cret.raised = "ConnectionError"
              /\ cret.errors = <<[error |-> "ConnectionError",
                                  handlers |-> [i \in 1..Len(client.error_handlers) |-> i]]>>
        /\ (cret.op = "connect" /\ cret.k = k /\ cret.returned
                /\ cret.raised = "" /\ conn[k].socket # NoSocket) =>
              /\ client.state = "CONNECTED"
              /\ Cardinality(LiveTasks) = 1

\* C26: for an inbound frame that passed validation every registered
\* message handler was invoked once, in registration order, each exception
\* of a handler went to every error handler, and the receive loop is still
\* reading
C26_HandlerIsolation ==
    (cret.op = "receive" /\ cret.frame = "valid") =>
        /\ cret.invoked = [i \in 1..Len(client.message_handlers) |-> i]
        /\ Len(cret.errors) =
              Cardinality({i \in 1..Len(client.message_handlers) :
                              client.message_handlers[i] = "raises"})
        /\ \A j \in DOMAIN cret.errors :
              /\ cret.errors[j].error = "HandlerError"
              /\ cret.errors[j].handlers = [i \in 1..Len(client.error_handlers) |-> i]
        /\ rtask[cret.k].pc = "receiving"

\* a valid frame was handled while the first of two message handlers
\* raises and two error handlers are registered
C26_Witness ==
    /\ cret.op = "receive"
    /\ cret.frame = "valid"
    /\ client.message_handlers = <<"raises", "returns">>
    /\ client.error_handlers = <<"raises", "returns">>

\* the error went to every registered error handler, once
ToEveryErrorHandler(error) ==
    cret.errors = <<[error |-> error,
                     handlers |-> [i \in 1..Len(client.error_handlers) |-> i]]>>

\* C27: send writes to the transport only a message that passed validation;
\* on a validation or transport failure it raises ProtocolError, which has
\* gone to every error handler, and writes nothing; on a client that is not
\* connected it raises ConnectionError and writes nothing
C27_Send ==
    cret.op = "send" =>
        /\ cret.written => (cret.frame = "valid" /\ cret.raised = "")
        /\ ~client_is_connected(client) =>
              (cret.raised = "ConnectionError" /\ ~cret.written)
        /\ (client_is_connected(client) /\ (cret.frame # "valid" \/ ~TransportOpen)) =>
              /\ cret.raised = "ProtocolError"
              /\ ToEveryErrorHandler("ProtocolError")
              /\ ~cret.written
        /\ (client_is_connected(client) /\ cret.frame = "valid" /\ TransportOpen) =>
              (cret.written /\ cret.raised = "")

\* send was given a message the schema rejects, on a connected client whose
\* transport is open and which has two error handlers
C27_Witness ==
    /\ cret.op = "send"
    /\ cret.frame = "bad_schema"
    /\ client_is_connected(client)
    /\ TransportOpen
    /\ Len(client.error_handlers) = 2

\* C28: when a disconnect() call returns the client is DISCONNECTED, holds
\* no transport, has no running receive loop and is not registered
C28_Disconnect ==
    (cret.op = "disconnect" /\ cret.returned) =>
        /\ client.state = "DISCONNECTED"
        /\ client.websocket = NoSocket
        /\ LiveTasks = {}
        /\ ~client.registered

\* a connect() that a disconnect() found in its backoff sleep opens no
\* transport once that disconnect() has returned
C29_Step ==
    \A k \in ConnectCalls :
        (conn[k].interrupted /\ \A d \in DisconnectCalls : disc[d].pc \in {"idle", "returned"})
            => conn'[k].socket = conn[k].socket

\* C29: after a disconnect() issued during the backoff sleep of a connect()
\* has returned, that connect() does not open a transport, start a receive
\* loop or set the state to CONNECTED
C29_Cancellable == [][C29_Step]_vars

\* ------------------------------------------------------ message signer
\* the same dict: the same items, in any insertion order
SameDict(a, b) == {a[i] : i \in DOMAIN a} = {b[i] : i \in DOMAIN b}

\* the same keys, and the value under exactly one of them differs
OneFieldChanged(a, b) ==
    /\ {a[i][1] : i \in DOMAIN a} = {b[i][1] : i \in DOMAIN b}
    /\ Cardinality({a[i] : i \in DOMAIN a} \ {b[i] : i \in DOMAIN b}) = 1

\* verify_message was given the signature sign_message returned last
GivenTheSignature == vret.op = "verify" /\ vret.signature = signed.signature

C36_Connected ==
    \A p \in Peers :
        is_connected(peer[p]) =>
            /\ peer[p].local_offer # None
            /\ peer[p].remote_answer # None
            /\ peer[p].ice_connection_state = "connected"

\* a connected instance has been given a remote candidate after its answer
C36_Witness ==
    /\ pret.op = "add_ice_candidate" /\ pret.peer = "P"
    /\ is_connected(peer["P"])
    /\ peer["P"].local_offer = Offer("P")
    /\ peer["P"].remote_answer = Answer("Q")

\* an instance that close() has left CLOSED, with no channel, stays so
C37_Step ==
    \A p \in Peers :
        (/\ peer[p].connection_state = "closed"
         /\ peer[p].ice_connection_state = "closed"
         /\ peer[p].data_channels = NoChannels)
        => (/\ peer'[p].connection_state = "closed"
            /\ peer'[p].ice_connection_state = "closed"
            /\ peer'[p].data_channels = NoChannels)

\* C37: CLOSED is absorbing: once close() has completed, connection_state
\* and ice_state remain CLOSED and the channel map remains empty under
\* every later call of create_offer, set_remote_offer, create_answer,
\* set_remote_answer, add_ice_candidate, add_local_ice_candidate,
\* create_data_channel and close.
C37_Absorbing == [][C37_Step]_vars

\* ---------------------------------------------------------- DataChannel
\* the channels the manager holds under some label
Managed == {channels[l] : l \in DOMAIN channels}

\* what one call does to the channel objects: a channel the caller
\* constructs is CONNECTING; send on a channel that is not OPEN raises and
\* leaves the queue and buffered_amount alone, send on an OPEN channel
\* enqueues the data and adds its length; a channel changes state only
\* forward along CONNECTING, OPEN, CLOSED, and one that is CLOSED never
\* becomes OPEN
C33_Step ==
    /\ dret'.op = "DataChannel" =>
           /\ Len(heap') = Len(heap) + 1
           /\ heap'[Len(heap')].state = "connecting"
    /\ dret'.op = "channel.send" =>
           LET before == heap[dret'.object]
               after == heap'[dret'.object]
           IN  IF before.state = "open"
               THEN /\ ~dret'.raised
                    /\ Len(after.message_queue) = Len(before.message_queue) + 1
                    /\ after.buffered_amount > before.buffered_amount
                    /\ after.state = "open"
               ELSE /\ dret'.raised
                    /\ after = before
    /\ \A o \in 1..Len(heap) :
           heap'[o].state # heap[o].state =>
               <<heap[o].state, heap'[o].state>> \in
                   {<<"connecting", "open">>, <<"open", "closed">>,
                    <<"connecting", "closed">>}

\* C33: every DataChannel follows CONNECTING -> OPEN -> CLOSED only: it is
\* CONNECTING at construction, send succeeds only in OPEN and otherwise
\* raises without enqueuing data or changing buffered_amount, and once
\* CLOSED a channel never becomes OPEN again under any sequence of open,
\* close and send calls, also on a channel the manager has removed.
C33_StateMachine == [][C33_Step]_vars

\* C39: under any sequence of create_channel, close_channel and close_all
\* get_channel_by_id(i) returns a channel exactly when some managed channel
\* has id i, and the channel it returns is managed and not closed.
C39_IdIndex ==
    \A i \in ChannelIds :
        LET found == get_channel_by_id(TheManager, i)
        IN  /\ (found # 0) <=> (\E o \in Managed : heap[o].id = i)
            /\ found # 0 => /\ found \in Managed
                            /\ heap[found].id = i
                            /\ heap[found].state # "closed"

\* ------------------------------------------- retry manager, call by call
\* C35: initial_delay is the delay before the first retry: with jitter = 0
\* and initial_delay <= max_delay, the call that has just met the first
\* failure on a manager waits exactly initial_delay before its second
\* attempt (the delay it sleeps is the one it passes to on_retry).
C35_InitialDelay ==
    \A c \in Calls :
        (/\ nerrors = 1
         /\ rcall[c].pc = "sleep"
         /\ retry_state.config.jitter = Rat(0, 1)
         /\ RLeq(retry_state.config.initial_delay, retry_state.config.max_delay))
        => rcall[c].delays = <<retry_state.config.initial_delay>>

\* C40: retry budgets are independent per call: under max_retries = N >= 1
\* every call of execute_with_retry, after an exhausted call or beside
\* other calls on the same manager, invokes its own operation up to N
\* times before raising: no call invokes its operation more than N times
\* (a success elsewhere does not reset its count) and a call that raised
\* has invoked it N times (failures elsewhere do not shorten its budget).
C40_IndependentBudgets ==
    retry_state.config.max_retries >= 1 =>
        \A c \in Calls :
            /\ rcall[c].invoked <= retry_state.config.max_retries
            /\ rcall[c].pc = "raised" =>
                   rcall[c].failures = retry_state.config.max_retries

\* -------------------------------------------------------- protocol data
\* the member of the Union that belongs to a message type
PayloadOf(type) == PayloadUnion[CHOOSE i \in DOMAIN PayloadUnion : PayloadUnion[i].type = type]

\* C31: the message type selects the payload's shape: a Message whose
\* payload does not meet the payload schema of its declared type (type
\* OFFER with a payload {public_key}, type REGISTER without public_key) is
\* rejected at deserialization, never accepted as another type's payload.
C31_TaggedUnion ==
    (parsed.op = "Message" /\ ~parsed.raised) =>
        Fits(parsed.keys, PayloadOf(parsed.type))

\* C34: the signature in the REGISTER frame that register() transmits
\* covers the frame as transmitted: the field values that were
\* canonicalized and signed are exactly those of the JSON written to the
\* transport, so a receiver who removes the signature from the received
\* frame, canonicalizes the rest and verifies it against the sender the
\* frame names obtains true.
C34_SignedAsSent ==
    /\ reg.wire # <<>> => canonical_json(Received) = canonical_json(reg.signed)
    /\ vret.op = "receive" => vret.value

====
